---- MODULE Spec2Model ----
(***************************************************************************)
(* A model of the dictionary scraper: DictionaryScraper.scrapeWord         *)
(* (src/unnamed/part_002) driven by the batch worker's main, runBatch and  *)
(* deepDiscover (src/unnamed/part_001), with the host process being        *)
(* terminated and started again.                                           *)
(*                                                                         *)
(* A word is a sequence of characters; a character is a one-symbol string  *)
(* ("ka" stands for a code point of the Khmer block U+1780..U+17FF).       *)
(***************************************************************************)
EXTENDS Integers, Sequences, FiniteSets, TLC

\* ------------------------------------------------------------------------
\* Strings
\* ------------------------------------------------------------------------

LowerChars == {"a", "b", "c", "d", "n", "e", "m", "p", "t", "y"}

KhmerChars == {"ka", "kha", "ko"}

SpaceChars == {" "}

\* String.prototype.toLowerCase, one character
LowerOf(c) == IF c = "A" THEN "a" ELSE IF c = "B" THEN "b" ELSE c

\* String.prototype.toUpperCase, one character
UpperOf(c) == IF c = "a" THEN "A" ELSE IF c = "b" THEN "B" ELSE c

\* String.prototype.toUpperCase
ToUpper(s) == [i \in 1..Len(s) |-> UpperOf(s[i])]

\* String.prototype.toLowerCase
ToLower(s) == [i \in 1..Len(s) |-> LowerOf(s[i])]

RECURSIVE TrimLeft(_)
TrimLeft(s) ==
    IF s # <<>> /\ Head(s) \in SpaceChars THEN TrimLeft(Tail(s)) ELSE s

RECURSIVE TrimRight(_)
TrimRight(s) ==
    IF s # <<>> /\ s[Len(s)] \in SpaceChars
    THEN TrimRight(SubSeq(s, 1, Len(s) - 1))
    ELSE s

\* String.prototype.trim
Trim(s) == TrimRight(TrimLeft(s))

\* the positions of character c in s
Positions(s, c) == {i \in 1..Len(s) : s[i] = c}

Min(S) == CHOOSE x \in S : \A y \in S : x <= y

Max(S) == CHOOSE x \in S : \A y \in S : x >= y

\* .replace(/\(.*\)/g, ''): the greedy match runs from the first "(" to the
\* last ")" of the string; nothing after it can match again
StripParens(s) ==
    LET opens == Positions(s, "(")
        closes == Positions(s, ")")
    IN  IF opens # {} /\ closes # {} /\ Max(closes) > Min(opens)
        THEN SubSeq(s, 1, Min(opens) - 1) \o SubSeq(s, Max(closes) + 1, Len(s))
        ELSE s

DigitChars == {"1", "2"}

\* the characters the class [a-z0-9ក-៿] matches
IsSafeChar(c) == c \in LowerChars \cup DigitChars \cup KhmerChars

\* .replace(/[^a-z0-9ក-៿]/g, '_')
MapUnsafe(s) == [i \in 1..Len(s) |-> IF IsSafeChar(s[i]) THEN s[i] ELSE "_"]

\* .replace(/_{2,}/g, '_')
RECURSIVE CollapseUnderscores(_)
CollapseUnderscores(s) ==
    IF Len(s) < 2 THEN s
    ELSE IF s[1] = "_" /\ s[2] = "_" THEN CollapseUnderscores(Tail(s))
    ELSE <<s[1]>> \o CollapseUnderscores(Tail(s))

\* .replace(/^_|_$/g, ''): one leading and one trailing underscore
StripEdgeUnderscores(s) ==
    LET t == IF s # <<>> /\ Head(s) = "_" THEN Tail(s) ELSE s
    IN  IF t # <<>> /\ t[Len(t)] = "_" THEN SubSeq(t, 1, Len(t) - 1) ELSE t

\* scrapeWord: cleanWord
CleanWord(word) == ToLower(Trim(word))

\* scrapeWord: cleanWordForFile
CleanWordForFile(word) == Trim(StripParens(ToLower(Trim(word))))

\* a scraper that strips the edge underscores before it collapses the runs
SafeFilenameEdgesFirst(word) ==
    CollapseUnderscores(StripEdgeUnderscores(MapUnsafe(CleanWordForFile(word))))

\* scrapeWord: safeFilename
SafeFilename(word) ==
    StripEdgeUnderscores(CollapseUnderscores(MapUnsafe(CleanWordForFile(word))))

EmptyName == <<"e", "m", "p", "t", "y">>

\* scrapeWord: the base name of filePath, `${safeFilename || 'empty'}`
FileKey(word) ==
    LET name == SafeFilename(word)
    IN  IF name = <<>> THEN EmptyName ELSE name

\* a scraper that keeps the records of every mode in one directory
ModeDirOne(mode) == "en_kh"

\* scrapeWord: modeDir
ModeDir(mode) == IF mode = 3 THEN "kh_en" ELSE IF mode = 2 THEN "kh_kh" ELSE "en_kh"

\* a scraper that names the record file after cleanWord
FilePathClean(word, mode) == <<ModeDir(mode), CleanWord(word)>>

\* scrapeWord: filePath, as <<partition, base name>>
FilePath(word, mode) == <<ModeDir(mode), FileKey(word)>>

\* a visited key that leaves the word out
VisitedKeyOfMode(word, mode) == <<mode, <<>>>>

\* deepDiscover: visitedKey and relKey, `${currentMode}:${w.trim().toLowerCase()}`
VisitedKey(word, mode) == <<mode, ToLower(Trim(word))>>

\* ------------------------------------------------------------------------
\* The detail page of a word and the Entry scrapeWord builds from it
\* ------------------------------------------------------------------------

\* the first occurrence of pattern p removed from s: String.prototype.replace
\* with a string pattern
RemoveFirst(s, p) ==
    LET at == {i \in 1..(Len(s) - Len(p) + 1) : SubSeq(s, i, i + Len(p) - 1) = p}
    IN  IF p = <<>> \/ at = {} THEN s
        ELSE SubSeq(s, 1, Min(at) - 1) \o SubSeq(s, Min(at) + Len(p), Len(s))

RECURSIVE DropWhile(_, _)
DropWhile(s, C) == IF s # <<>> /\ Head(s) \in C THEN DropWhile(Tail(s), C) ELSE s

\* .replace(/^\d+\.\s*/, '')
StripOrdinal(s) ==
    LET rest == DropWhile(s, DigitChars)
    IN  IF s # <<>> /\ Head(s) \in DigitChars /\ rest # <<>> /\ Head(rest) = "."
        THEN DropWhile(Tail(rest), SpaceChars)
        ELSE s

\* the rows targetRows selects: td.text2 rows for mode 3, td.khbat12 rows otherwise
TargetRows(page, mode) ==
    IF mode = 3
    THEN SelectSeq(page.rows, LAMBDA r : r.hasText2)
    ELSE SelectSeq(page.rows, LAMBDA r : r.hasKhbat12)

\* the def object of one row before the degenerate-definition filter;
\* an optional field is a sequence of zero or one value
RowDef(row, mode) ==
    LET base == [pos |-> row.pos, example |-> row.example,
                 khmer_image_url |-> <<>>, khmer_text |-> <<>>,
                 definition_text |-> <<>>, local_image_path |-> <<>>]
        khText == Trim(RemoveFirst(row.khmer, row.example))
        enText == Trim(row.english)
    IN  IF mode = 1
        THEN IF row.img # <<>>
             THEN [base EXCEPT !.khmer_image_url = row.img]
             ELSE IF khText # <<>> THEN [base EXCEPT !.khmer_text = <<khText>>]
                  ELSE base
        ELSE IF mode = 3
        THEN IF enText # <<>>
             THEN [base EXCEPT !.definition_text = <<Trim(RemoveFirst(enText, row.example))>>]
             ELSE base
        ELSE [base EXCEPT !.definition_text = <<Trim(RemoveFirst(Trim(row.khmer), row.example))>>]

\* targetRows.each: the definitions pushed for the selected rows, in page order
RECURSIVE Definitions(_, _, _)
Definitions(rows, word, mode) ==
    IF rows = <<>> THEN <<>>
    ELSE LET d == RowDef(Head(rows), mode)
             hasText == d.definition_text # <<>> /\ d.definition_text[1] # <<>>
             text == IF hasText THEN StripOrdinal(d.definition_text[1]) ELSE <<>>
             kept == IF hasText THEN [d EXCEPT !.definition_text = <<text>>] ELSE d
             rest == Definitions(Tail(rows), word, mode)
         IN  IF d.khmer_image_url = <<>> /\ d.khmer_text = <<>> /\ ~hasText
             THEN rest
             ELSE IF hasText /\ ToLower(text) = ToLower(Trim(word)) THEN rest
             ELSE IF hasText /\ Len(text) < 2 /\ d.khmer_image_url = <<>> THEN rest
             ELSE <<kept>> \o rest

\* a scraper that keeps the lists as they were collected
DedupNone(s) == s

\* [...new Set(list)]: duplicates dropped, first occurrences kept in order
Dedup(s) ==
    LET first == {i \in 1..Len(s) : \A j \in 1..(i - 1) : s[j] # s[i]}
    IN  [k \in 1..Cardinality(first) |->
            s[CHOOSE i \in first : Cardinality({j \in first : j <= i}) = k]]

\* extractList and the similar-words walk: the trimmed link texts that are
\* non-empty and differ from cleanWord
ExtractList(links, word) ==
    SelectSeq([i \in 1..Len(links) |-> Trim(links[i])],
              LAMBDA w : w # <<>> /\ ToLower(w) # CleanWord(word))

\* a scraper that looks for the audio reference in every mode
ParsePageSoundAlways(page, word, mode) ==
    [word |-> Trim(word),
     type |-> ModeDir(mode),
     definitions |-> Definitions(TargetRows(page, mode), word, mode),
     synonyms |-> Dedup(ExtractList(page.syn, word)),
     antonyms |-> Dedup(ExtractList(page.ant, word)),
     similar_words |-> Dedup(ExtractList(page.sim, word)),
     sound_url |-> page.audio,
     local_sound_path |-> <<>>]

\* the result object up to the "Downloads" section
ParsePage(page, word, mode) ==
    [word |-> Trim(word),
     type |-> ModeDir(mode),
     definitions |-> Definitions(TargetRows(page, mode), word, mode),
     synonyms |-> Dedup(ExtractList(page.syn, word)),
     antonyms |-> Dedup(ExtractList(page.ant, word)),
     similar_words |-> Dedup(ExtractList(page.sim, word)),
     sound_url |-> IF mode = 1 THEN page.audio ELSE <<>>,
     local_sound_path |-> <<>>]

\* the media the "Downloads" section asks for, in order: the definition
\* images, then the sound; each as <<store, file name>>
MediaOf(result) ==
    LET withImg == SelectSeq(result.definitions, LAMBDA d : d.khmer_image_url # <<>>)
    IN  [i \in 1..Len(withImg) |-> <<"images", withImg[i].khmer_image_url[1]>>]
        \o [i \in 1..Len(result.sound_url) |-> <<"sounds", result.sound_url[i]>>]

\* the result object as written: every definition with an image and the
\* sound carry their local path
WithLocalPaths(result) ==
    [result EXCEPT
        !.definitions = [i \in 1..Len(result.definitions) |->
            [result.definitions[i] EXCEPT
                !.local_image_path = result.definitions[i].khmer_image_url]],
        !.local_sound_path = result.sound_url]

\* ------------------------------------------------------------------------
\* The remote site: the inputs of a run
\* ------------------------------------------------------------------------

\* how many letters of EN_ALPHABET and of KH_ALL_SEEDS the model keeps
AlphabetSize == 2

\* how many of the words of the site answer with a failure
MaxBad == 1

\* EN_ALPHABET, its first AlphabetSize letters
EN_ALPHABET == SubSeq(<<"a", "b", "c">>, 1, AlphabetSize)

\* KH_ALL_SEEDS, its first AlphabetSize letters
KH_ALL_SEEDS == SubSeq(<<"ka", "kha", "ko">>, 1, AlphabetSize)

wa == <<"a">>

wA == <<"A">>

wan == <<"a", "(", "n", ")">>

wb == <<"b">>

wc == <<"c">>

\* the words the site knows
Words == {wa, wA, wan, wb, wc}

NoLinks == [syn |-> <<>>, ant |-> <<>>, sim |-> <<>>]

\* the relation links of the detail pages: for each word the link texts under
\* "Synonym:", "Antonym:" and "Found similar words:"
LinksNone == [w \in Words |-> NoLinks]

\* a chain b -> a -> c
LinksChain ==
    [w \in Words |-> IF w = wb THEN [NoLinks EXCEPT !.sim = <<wa>>]
                     ELSE IF w = wa THEN [NoLinks EXCEPT !.sim = <<wc>>]
                     ELSE NoLinks]

\* a cycle a <-> b with a self link, a repeated link and padded text
LinksCycle ==
    [w \in Words |-> IF w = wa THEN [NoLinks EXCEPT !.syn = <<wb, wa, wb>>]
                     ELSE IF w = wb THEN [NoLinks EXCEPT !.syn = <<wA>>, !.ant = <<<<" ", "c">>>>]
                     ELSE NoLinks]

\* links whose file names collide
LinksCollide ==
    [w \in Words |-> IF w = wc THEN [NoLinks EXCEPT !.ant = <<wan, wa>>, !.sim = <<wb>>]
                     ELSE NoLinks]

LinkMaps == {LinksNone, LinksChain, LinksCycle, LinksCollide}

NoRow == [hasKhbat12 |-> FALSE, hasText2 |-> FALSE, img |-> <<>>, khmer |-> <<>>,
          english |-> <<>>, example |-> <<>>, pos |-> <<>>]

\* the definition rows and the audio reference of a page that has media
MediaRows == << [NoRow EXCEPT !.hasKhbat12 = TRUE, !.img = <<"i1">>] >>

TextRows == << [NoRow EXCEPT !.hasKhbat12 = TRUE, !.hasText2 = TRUE,
                             !.khmer = <<"ka", "kha">>, !.english = <<"d", "e">>] >>

PageKinds == {"ok", "fetcherr", "notfound", "parseerr"}

\* what a download of a media file ends with: stored, the request failed, or
\* the write stream failed
DownloadOutcomes == {"ok", "reqfail", "writefail"}

\* the detail pages of the site: the words of bad answer with kind, the word
\* rich (if any) has an image row and an audio reference
PagesOf(bad, kind, links, rich) ==
    [w \in Words |->
        [kind |-> IF w \in bad THEN kind ELSE "ok",
         rows |-> IF w \in rich THEN MediaRows ELSE TextRows,
         audio |-> IF w \in rich THEN <<"s1">> ELSE <<>>,
         syn |-> links[w].syn, ant |-> links[w].ant, sim |-> links[w].sim]]

\* the anchors the search endpoint returns for the prefixes that end with the
\* first and with any other letter
CandLists ==
    { << <<wan, wb>>, <<wa>> >>,
      << <<wa, wA, wb>>, <<wb, wc>> >>,
      << <<wc>>, <<>> >> }

\* the repository's branching threshold and depth limits
BranchThreshold == 9

MaxDepthEn == 4

MaxDepthKh == 5

RECURSIVE Cycle(_, _)
\* n anchors, cycling through list
Cycle(list, n) ==
    IF n = 0 \/ list = <<>> THEN <<>>
    ELSE IF n <= Len(list) THEN SubSeq(list, 1, n)
    ELSE list \o Cycle(list, n - Len(list))

\* which prefixes the search endpoint answers with a full page of anchors:
\* none; the one-letter prefixes; the prefixes that end with the first letter
\* of the alphabet (the others get one anchor less than a full page); all
FullRules == {"never", "seed", "first", "always"}

\* the search endpoint has a full page for prefix
IsFull(rule, prefix) ==
    \/ rule = "always"
    \/ rule = "seed" /\ Len(prefix) = 1
    \/ rule = "first" /\ prefix[Len(prefix)] \in {"a", "ka"}

\* the answer of the search endpoint: a full page has BranchThreshold
\* anchors; a prefix of failing gets no answer
SearchResult(cands, rule, failing, prefix) ==
    LET list == IF prefix[Len(prefix)] \in {"a", "ka"} THEN cands[1] ELSE cands[2]
    IN  [err |-> prefix \in failing,
         anchors |-> IF IsFull(rule, prefix) THEN Cycle(list, BranchThreshold)
                     ELSE IF rule = "first" THEN Cycle(list, BranchThreshold - 1)
                     ELSE list]

\* one site
Site(bad, kind, links, cands, rich, dl, rule, failing) ==
    [pages |-> PagesOf(bad, kind, links, rich), cands |-> cands, full |-> rule,
     failing |-> failing, dl |-> dl]

\* the sites whose pages carry media, whose one-letter search pages are full,
\* or whose search request fails for a prefix
Variants ==
    { [rich |-> {wb}, dl |-> "ok", full |-> "never", failing |-> {}],
      [rich |-> {wb}, dl |-> "reqfail", full |-> "never", failing |-> {}],
      [rich |-> {wb}, dl |-> "writefail", full |-> "never", failing |-> {}],
      [rich |-> {}, dl |-> "ok", full |-> "seed", failing |-> {}],
      [rich |-> {}, dl |-> "ok", full |-> "never", failing |-> {<<"a">>, <<"ka">>}] }

\* the search answers that make deepDiscover go down to maxDepth: full pages
\* behind the first letter with and without a failing request on the way,
\* and, for the English batch, full pages everywhere
DeepVariants(type) ==
    { [full |-> "first", failing |-> {}],
      [full |-> "first", failing |-> {<<"a", "a">>, <<"ka", "ka">>}] }
    \cup (IF type = "en" THEN {[full |-> "always", failing |-> {}]} ELSE {})

\* the anchors of the sites with deep search answers
DeepCands == << <<wa, wA, wb>>, <<wb, wc>> >>

\* the words whose detail page may answer with a failure
Frail == {wa, wan, wb}

\* the sites with the given kinds of failing page and link maps: up to MaxBad
\* failing words with every search answer, the variants with every search
\* answer, and the sites with deep search answers
SitesOf(kinds, linkMaps, type) ==
    { Site(bad, kind, links, cands, {}, "ok", "never", {}) :
        bad \in {B \in SUBSET Frail : Cardinality(B) <= MaxBad},
        kind \in kinds,
        links \in linkMaps,
        cands \in CandLists }
    \cup
    { Site({}, "notfound", links, cands, v.rich, v.dl, v.full, v.failing) :
        links \in linkMaps, cands \in CandLists, v \in Variants }
    \cup
    { Site({}, "notfound", LinksCollide, DeepCands, {}, "ok", v.full, v.failing) :
        v \in DeepVariants(type) }

\* the sites a run with the given arguments is checked against: every link
\* map where relations are followed (depth > 1), two of them where they are
\* not; every kind of failing page for the English batch, the not-found page
\* for the two Khmer batches
Remotes(args) ==
    SitesOf(IF args.type = "en" THEN PageKinds \ {"ok"} ELSE {"notfound"},
            IF args.depth > 1 THEN LinkMaps ELSE {LinksNone, LinksCollide},
            args.type)

\* ------------------------------------------------------------------------
\* State
\* ------------------------------------------------------------------------

VARIABLES
    remote,       \* the site this world runs against (never changes)
    argv,         \* the worker's arguments: type, depth, limitPerSeed
    files,        \* the record files on disk: path -> [complete, entry]
    media,        \* the media files on disk, as <<store, file name>>
    pc,           \* where main is: "start", "batch", "run", "done", "crashed", "killed"
    bi,           \* main: the index of the batch being run
    si,           \* runBatch: the index of the seed being discovered
    frames,       \* the stack of deepDiscover activations, innermost last
    processed,    \* runBatch: processed
    wordQueue,    \* runBatch: wordQueue
    totalScraped, \* runBatch: totalScraped
    call,         \* the scrapeWord call in progress
    calls,        \* history: the scrapeWord calls this process has finished
    completed,    \* history: the modes whose batch logged "Processing complete"
    prevEnd,      \* history: how the previous process ended ("none" for the first)
    filesAtStart, \* history: the record files when this process started
    everNotFound, \* history: the <<word, mode>> the site has reported as not found
    queries,      \* history: the discoverWords calls this process has made
    inflight,     \* the outbound requests that are issued and not yet settled
    lastOut,      \* what last left the process: "none", a "request", or a "delay"
    norm,         \* the word whose file name is computed on its own, and the names got
    log,          \* scraping_log.txt, the entries the running process has appended to it
    parse,        \* the detail page that is parsed on its own, and the entry got
    crawl,        \* the single-word crawler: its arguments, queue and visited set
    sql           \* the JSON to SQLite conversion: the calls the database has queued and run

vars == <<remote, argv, files, media, pc, bi, si, frames, processed, wordQueue,
          totalScraped, call, calls, completed, prevEnd, filesAtStart, everNotFound,
          queries, inflight, lastOut, norm, log, parse, crawl, sql>>

\* the worker's type argument and the depth argument
Types == {"en", "kh"}

Depths == {1, 2}

\* the limit-per-seed argument the worker is started with
LimitPerSeed == 2

\* main: the runBatch calls the type argument selects, in order
Batches(type) ==
    (IF type \in {"en", "all"} THEN << [seeds |-> EN_ALPHABET, mode |-> 1] >> ELSE <<>>)
    \o (IF type \in {"kh", "all"}
        THEN << [seeds |-> KH_ALL_SEEDS, mode |-> 2], [seeds |-> KH_ALL_SEEDS, mode |-> 3] >>
        ELSE <<>>)

\* no scrapeWord call in progress. Of a call: phase is the await it is at
\* ("ret": it has returned ret, "threw": an exception has left it), result the
\* result object, dl the index of the media file at hand, ret the returned
\* value (<<>> for null). History: had is what the record file held when the
\* call was made (<<>> for no file), reqs counts the outbound requests of the
\* call, events lists the lines it has logged, outcome names how it ended,
\* failed holds the media files whose download failed
IdleCall == [phase |-> "idle", word |-> <<>>, mode |-> 0, hit |-> FALSE,
             result |-> <<>>, dl |-> 0, reqs |-> 0, events |-> <<>>,
             ret |-> <<>>, outcome |-> "none", had |-> <<>>, failed |-> {}]

\* a scraper that never finds a record file
PathExistsNever(path) == FALSE

\* fs.pathExists on a record file
PathExists(path) == path \in DOMAIN files

\* the state of a process that has just been started
Fresh ==
    /\ pc = "start"
    /\ bi = 0
    /\ si = 0
    /\ frames = <<>>
    /\ processed = {}
    /\ wordQueue = {}
    /\ totalScraped = 0
    /\ call = IdleCall
    /\ calls = <<>>
    /\ completed = {}
    /\ queries = <<>>
    /\ inflight = {}
    /\ lastOut = "none"

\* no file name is computed on its own
NoNorm == [step |-> "none", word |-> <<>>, key |-> <<>>, again |-> <<>>, noted |-> <<>>]

\* no detail page is parsed on its own
NoParse == [step |-> "none", word |-> <<>>, mode |-> 0, page |-> <<>>, entry |-> <<>>]

\* the conversion script is not run
NoSql ==
    [pc |-> "off", jsonData |-> <<>>, queue |-> <<>>, pending |-> {}, locked |-> FALSE,
     ran |-> <<>>, totalWords |-> 0, totalChildren |-> 0]

\* the single-word crawler is not running
NoCrawl ==
    [pc |-> "off", word |-> <<>>, mode |-> 0, depth |-> 0, queue |-> <<>>, visited |-> {},
     cur |-> <<>>, data |-> <<>>, scraped |-> <<>>]

Init ==
    /\ argv \in [type : Types, depth : Depths, limitPerSeed : {LimitPerSeed}]
    /\ remote \in Remotes(argv)
    /\ norm = NoNorm
    /\ parse = NoParse
    /\ crawl = NoCrawl
    /\ sql = NoSql
    /\ files = << >>
    /\ media = {}
    /\ Fresh
    /\ prevEnd = "none"
    /\ filesAtStart = << >>
    /\ everNotFound = {}
    /\ log = <<>>

\* what no step of the worker changes
env == <<remote, argv, norm, parse, crawl, sql>>

hist == <<prevEnd, filesAtStart>>

ghost == <<hist, everNotFound>>

disk == <<files, media>>

batchVars == <<bi, si, processed, wordQueue, totalScraped, completed>>

net == <<inflight, lastOut>>

\* the messages that begin with a line break: ">>> Starting Batch",
\* "Processing complete" and "Batch processing complete!"
BrokenKinds == {"batch", "complete", "alldone"}

\* an entry of the log: what is reported, the word, mode and count it names, and
\* the number of text rows `[${timestamp}] ${message}\n` takes in the file
Line(kind, word, mode, total) ==
    [kind |-> kind, word |-> word, mode |-> mode, total |-> total,
     rows |-> IF kind \in BrokenKinds THEN 2 ELSE 1]

\* the lines scrapeWord call c has logged after its first from events
LinesOf(c, from) ==
    [i \in 1..(Len(c.events) - from) |-> Line(c.events[from + i], c.word, c.mode, 0)]

\* a log function that writes the file anew
LoggedAnew(lines) == lines

\* log(message): fs.appendFileSync(LOG_FILE, `[${timestamp}] ${message}\n`)
Logged(lines) == log \o lines

\* a request leaves the process: axios.get, or axios({url, responseType: 'stream'})
Issue(kind) == inflight \cup {[kind |-> kind, after |-> lastOut]}

\* a process that goes on while the request it has issued is still under way
SettleNever(kind) == inflight

\* the awaited request resolves or rejects
Settle(kind) == {r \in inflight : r.kind # kind}

\* ------------------------------------------------------------------------
\* DictionaryScraper.scrapeWord, one action per await
\* ------------------------------------------------------------------------

\* scrapeWord up to its first await: the empty-word return, or the pending
\* fs.pathExists(filePath)
BeginCall(word, mode) ==
    IF word = <<>>
    THEN [IdleCall EXCEPT !.phase = "ret", !.word = word, !.mode = mode, !.outcome = "noword"]
    ELSE [IdleCall EXCEPT !.phase = "exists", !.word = word, !.mode = mode,
                          !.had = IF FilePath(word, mode) \in DOMAIN files
                                  THEN <<files[FilePath(word, mode)]>> ELSE <<>>]

\* JSON.parse(await fs.readFile(filePath)): the stored entry, or <<>> when the
\* text on disk is not a complete JSON document and the parse throws
ReadRecord(path) == IF files[path].complete THEN <<files[path].entry>> ELSE <<>>

\* fs.pathExists(filePath) resolves: the "Skipping existing word" branch starts
\* reading the file, the other branch logs "Scraping" and issues the page request
SW_Exists ==
    /\ call.phase = "exists"
    /\ IF PathExists(FilePath(call.word, call.mode))
       THEN call' = [call EXCEPT !.phase = "read", !.hit = TRUE,
                                 !.events = Append(@, "skip")]
       ELSE call' = [call EXCEPT !.phase = "fetch", !.reqs = @ + 1,
                                 !.events = Append(@, "scraping")]
    /\ inflight' = IF PathExists(FilePath(call.word, call.mode)) THEN inflight ELSE Issue("page")
    /\ lastOut' = IF PathExists(FilePath(call.word, call.mode)) THEN lastOut ELSE "request"
    /\ log' = Logged(LinesOf(call', Len(call.events)))
    /\ UNCHANGED <<env, disk, pc, frames, batchVars, calls, ghost, queries>>

\* a scraper that takes an unreadable record for a missing one and fetches the page
SW_ReadOrRefetch ==
    /\ call.phase = "read"
    /\ LET got == ReadRecord(FilePath(call.word, call.mode))
       IN  IF got # <<>>
           THEN call' = [call EXCEPT !.phase = "ret", !.ret = got, !.outcome = "hit"]
           ELSE call' = [call EXCEPT !.phase = "fetch", !.reqs = @ + 1,
                                     !.events = Append(@, "scraping")]
    /\ inflight' = IF ReadRecord(FilePath(call.word, call.mode)) # <<>> THEN inflight
                   ELSE Issue("page")
    /\ lastOut' = IF ReadRecord(FilePath(call.word, call.mode)) # <<>> THEN lastOut
                  ELSE "request"
    /\ log' = Logged(LinesOf(call', Len(call.events)))
    /\ UNCHANGED <<env, disk, pc, frames, batchVars, calls, ghost, queries>>

\* fs.readFile resolves and JSON.parse runs, outside the try block: the entry
\* is returned, or the exception leaves scrapeWord
SW_Read ==
    /\ call.phase = "read"
    /\ LET got == ReadRecord(FilePath(call.word, call.mode))
       IN  IF got # <<>>
           THEN call' = [call EXCEPT !.phase = "ret", !.ret = got, !.outcome = "hit"]
           ELSE call' = [call EXCEPT !.phase = "threw", !.outcome = "threw"]
    /\ UNCHANGED <<env, disk, pc, frames, batchVars, calls, ghost, queries, net, log>>

\* a scraper without the catch block: the exception leaves scrapeWord
Uncaught(c) == [c EXCEPT !.phase = "threw", !.outcome = "threw"]

\* the catch block: one "Error scraping" line, return null
Caught(c) ==
    [c EXCEPT !.phase = "ret", !.ret = <<>>, !.outcome = "error",
              !.events = Append(@, "error")]

\* after the page is parsed, or a download is over: the next media file is
\* looked up, or fs.writeJson is called
AfterMedia(c, n) ==
    IF n <= Len(MediaOf(c.result[1]))
    THEN [c EXCEPT !.phase = "dlcheck", !.dl = n]
    ELSE [c EXCEPT !.phase = "write"]

\* the page check of a scraper that stores an empty record for a word the site
\* does not know
NotFoundCached(c) ==
    [c EXCEPT !.result = <<ParsePage([kind |-> "ok", rows |-> <<>>, audio |-> <<>>,
                                      syn |-> <<>>, ant |-> <<>>, sim |-> <<>>],
                                     c.word, c.mode)>>,
              !.phase = "write", !.events = Append(@, "notfound")]

\* the "word not found" check: one "Word not found" line, return null
NotFound(c) ==
    [c EXCEPT !.phase = "ret", !.ret = <<>>, !.outcome = "notfound",
              !.events = Append(@, "notfound")]

\* axios.get resolves or rejects; the page is checked for "not found" and parsed
SW_Fetch ==
    /\ call.phase = "fetch"
    /\ LET page == remote.pages[Trim(call.word)]
       IN  call' =
             IF page.kind = "fetcherr" THEN Caught(call)
             ELSE IF page.kind = "notfound"
             THEN NotFound(call)
             ELSE IF page.kind = "parseerr" THEN Caught(call)
             ELSE AfterMedia([call EXCEPT !.result = <<ParsePage(page, call.word, call.mode)>>], 1)
    /\ everNotFound' = IF remote.pages[Trim(call.word)].kind = "notfound"
                       THEN everNotFound \cup {<<call.word, call.mode>>}
                       ELSE everNotFound
    /\ inflight' = Settle("page")
    /\ log' = Logged(LinesOf(call', Len(call.events)))
    /\ UNCHANGED <<env, disk, pc, frames, batchVars, calls, hist, queries, lastOut>>

\* fs.pathExists(localPath) resolves: a file already there is not downloaded again
SW_DownloadCheck ==
    /\ call.phase = "dlcheck"
    /\ IF MediaOf(call.result[1])[call.dl] \in media
       THEN call' = AfterMedia(call, call.dl + 1)
       ELSE call' = [call EXCEPT !.phase = "dl", !.reqs = @ + 1]
    /\ inflight' = IF MediaOf(call.result[1])[call.dl] \in media THEN inflight
                   ELSE Issue("media")
    /\ lastOut' = IF MediaOf(call.result[1])[call.dl] \in media THEN lastOut ELSE "request"
    /\ UNCHANGED <<env, disk, pc, frames, batchVars, calls, ghost, queries, log>>

\* downloadFile settles: the file is stored; or the request failed, which
\* downloadFile swallows; or the write stream failed, which rejects and lands in
\* scrapeWord's catch block
SW_Download ==
    /\ call.phase = "dl"
    /\ LET m == MediaOf(call.result[1])[call.dl]
       IN  /\ media' = IF remote.dl = "ok" THEN media \cup {m} ELSE media
           /\ call' = LET c == IF remote.dl = "ok" THEN call
                                 ELSE [call EXCEPT !.failed = @ \cup {m}]
                      IN  IF remote.dl = "writefail" THEN Caught(c)
                          ELSE AfterMedia(c, call.dl + 1)
    /\ inflight' = Settle("media")
    /\ log' = Logged(LinesOf(call', Len(call.events)))
    /\ UNCHANGED <<env, files, pc, frames, batchVars, calls, ghost, queries, lastOut>>

\* fs.writeJson, first half: the file is opened for writing, truncated, and
\* holds only a part of the JSON text
SW_WriteOpen ==
    /\ call.phase = "write"
    /\ files' = (FilePath(call.word, call.mode) :>
                    [complete |-> FALSE, entry |-> WithLocalPaths(call.result[1])]) @@ files
    /\ call' = [call EXCEPT !.phase = "writing"]
    /\ UNCHANGED <<env, media, pc, frames, batchVars, calls, ghost, queries, net, log>>

\* fs.writeJson, second half: the whole text is on disk; scrapeWord returns result
SW_WriteDone ==
    /\ call.phase = "writing"
    /\ files' = [files EXCEPT ![FilePath(call.word, call.mode)].complete = TRUE]
    /\ call' = [call EXCEPT !.phase = "ret", !.ret = <<WithLocalPaths(call.result[1])>>,
                            !.outcome = "stored"]
    /\ UNCHANGED <<env, media, pc, frames, batchVars, calls, ghost, queries, net, log>>

\* ------------------------------------------------------------------------
\* batch worker: main, runBatch, deepDiscover
\* ------------------------------------------------------------------------

TheBatches == Batches(argv.type)

Batch == TheBatches[bi]

Top == frames[Len(frames)]

SetTop(f) == [frames EXCEPT ![Len(frames)] = f]

\* a deepDiscover activation that has called discoverWords and awaits it
NewFrame(prefix, mode) ==
    [prefix |-> prefix, mode |-> mode, phase |-> "disc", found |-> <<>>, i |-> 0,
     data |-> <<>>, rels |-> <<>>, j |-> 0, k |-> 0]

\* history: a discoverWords call that is awaited; found becomes <<the
\* returned list>> when it returns
NewQuery(prefix, mode) == [prefix |-> prefix, mode |-> mode, found |-> <<>>]

\* a discoverWords that returns the anchors it has when the request failed
DiscoverWordsAnyway(prefix, mode) ==
    LET r == SearchResult(remote.cands, remote.full, remote.failing, prefix)
    IN  SelectSeq([n \in 1..Len(r.anchors) |-> Trim(r.anchors[n])], LAMBDA w : w # <<>>)

\* discoverWords: the trimmed non-empty anchor texts, [] when the request throws
DiscoverWords(prefix, mode) ==
    LET r == SearchResult(remote.cands, remote.full, remote.failing, prefix)
    IN  IF r.err THEN <<>>
        ELSE SelectSeq([n \in 1..Len(r.anchors) |-> Trim(r.anchors[n])], LAMBDA w : w # <<>>)

\* a deepDiscover whose depth limit is one symbol further
MaxDepthLater(mode) == IF mode = 1 THEN MaxDepthEn + 1 ELSE MaxDepthKh + 1

\* deepDiscover: maxDepth
MaxDepth(mode) == IF mode = 1 THEN MaxDepthEn ELSE MaxDepthKh

\* a deepDiscover that extends every prefix with the Latin alphabet
ExpandListLatin(mode, seeds) == EN_ALPHABET

\* deepDiscover: the letters a full prefix is extended with
ExpandList(mode, seeds) == IF mode = 1 THEN EN_ALPHABET ELSE seeds

\* deepDiscover: the relations of a returned entry, in the order they are walked
Relations(data) == data.synonyms \o data.similar_words \o data.antonyms

\* main up to runBatch: the PID file and the "Worker started" line
StartMain ==
    /\ pc = "start"
    /\ pc' = "batch"
    /\ bi' = 1
    /\ log' = Logged(<<Line("started", <<>>, 0, 0)>>)
    /\ UNCHANGED <<env, disk, si, frames, processed, wordQueue, totalScraped, call, calls,
                   completed, ghost, queries, net>>

\* runBatch up to its first deepDiscover: scraper.init(), the "Starting Batch"
\* line, the empty sets, totalScraped = 0
StartBatch ==
    /\ pc = "batch"
    /\ bi <= Len(TheBatches)
    /\ pc' = "run"
    /\ si' = 1
    /\ processed' = {}
    /\ wordQueue' = {<<Batch.seeds[n]>> : n \in 1..Len(Batch.seeds)}
    /\ totalScraped' = 0
    /\ log' = Logged(<<Line("batch", <<>>, Batch.mode, 0), Line("deep", <<>>, Batch.mode, 0)>>)
    /\ UNCHANGED <<env, disk, bi, frames, call, calls, completed, ghost, queries, net>>

\* runBatch: for (const char of seeds) await deepDiscover(char, mode)
NextSeed ==
    /\ pc = "run"
    /\ frames = <<>>
    /\ si <= Len(Batch.seeds)
    /\ frames' = <<NewFrame(<<Batch.seeds[si]>>, Batch.mode)>>
    /\ queries' = Append(queries, NewQuery(<<Batch.seeds[si]>>, Batch.mode))
    /\ inflight' = Issue("search")
    /\ lastOut' = "request"
    /\ UNCHANGED <<env, disk, pc, batchVars, call, calls, ghost, log>>

\* runBatch: the "Processing complete" line, then main goes on
FinishBatch ==
    /\ pc = "run"
    /\ frames = <<>>
    /\ si > Len(Batch.seeds)
    /\ completed' = completed \cup {Batch.mode}
    /\ bi' = bi + 1
    /\ pc' = "batch"
    /\ log' = Logged(<<Line("complete", <<>>, Batch.mode, totalScraped)>>)
    /\ UNCHANGED <<env, disk, si, frames, processed, wordQueue, totalScraped, call, calls, ghost, queries, net>>

\* main: "Batch processing complete!"
FinishMain ==
    /\ pc = "batch"
    /\ bi > Len(TheBatches)
    /\ pc' = "done"
    /\ log' = Logged(<<Line("alldone", <<>>, 0, 0), Line("finished", <<>>, 0, 0)>>)
    /\ UNCHANGED <<env, disk, frames, batchVars, call, calls, ghost, queries, net>>

\* a deepDiscover that goes on to the extensions of the prefix as soon as
\* discoverWords returns
DiscoverReturnExpandFirst ==
    /\ pc = "run"
    /\ frames # <<>>
    /\ Top.phase = "disc"
    /\ frames' = SetTop([Top EXCEPT !.phase = "expand", !.k = 1,
                                    !.found = DiscoverWords(Top.prefix, Top.mode)])
    /\ queries' = [queries EXCEPT ![Len(queries)].found = <<DiscoverWords(Top.prefix, Top.mode)>>]
    /\ inflight' = Settle("search")
    /\ UNCHANGED <<env, disk, pc, batchVars, call, calls, ghost, lastOut, log>>

\* deepDiscover: discoverWords returns
DiscoverReturn ==
    /\ pc = "run"
    /\ frames # <<>>
    /\ Top.phase = "disc"
    /\ frames' = SetTop([Top EXCEPT !.phase = "cand", !.i = 1,
                                    !.found = DiscoverWords(Top.prefix, Top.mode)])
    /\ queries' = [queries EXCEPT ![Len(queries)].found = <<DiscoverWords(Top.prefix, Top.mode)>>]
    /\ inflight' = Settle("search")
    /\ UNCHANGED <<env, disk, pc, batchVars, call, calls, ghost, lastOut, log>>

\* deepDiscover: the head of for (const w of found): a processed candidate is
\* passed over, a new one is put in wordQueue and scraped
CandNext ==
    /\ pc = "run"
    /\ frames # <<>>
    /\ Top.phase = "cand"
    /\ IF Top.i > Len(Top.found)
       THEN /\ frames' = SetTop([Top EXCEPT !.phase = "expand", !.k = 1])
            /\ UNCHANGED <<wordQueue, call>>
       ELSE IF VisitedKey(Top.found[Top.i], Top.mode) \in processed
       THEN /\ frames' = SetTop([Top EXCEPT !.i = @ + 1])
            /\ UNCHANGED <<wordQueue, call>>
       ELSE /\ frames' = SetTop([Top EXCEPT !.phase = "scrape"])
            /\ wordQueue' = wordQueue \cup {Top.found[Top.i]}
            /\ call' = BeginCall(Top.found[Top.i], Top.mode)
    /\ UNCHANGED <<env, disk, pc, bi, si, processed, totalScraped, calls, completed, ghost, queries, net, log>>

\* the finished call as the history keeps it
CallRecord ==
    [word |-> call.word, mode |-> call.mode, outcome |-> call.outcome, ret |-> call.ret,
     prefix |-> Top.prefix, of |-> Top.found[Top.i],
     via |-> IF Top.phase = "scrape" THEN "cand" ELSE "rel",
     at |-> Len(queries)]

\* deepDiscover: scrapeWord(w) returned data; processed.add, totalScraped++,
\* and the delay starts
CandReturn ==
    /\ pc = "run"
    /\ frames # <<>>
    /\ Top.phase = "scrape"
    /\ call.phase = "ret"
    /\ frames' = SetTop([Top EXCEPT !.phase = "delay", !.data = call.ret])
    /\ processed' = processed \cup {VisitedKey(Top.found[Top.i], Top.mode)}
    /\ totalScraped' = totalScraped + 1
    /\ calls' = Append(calls, CallRecord)
    /\ call' = IdleCall
    /\ UNCHANGED <<env, disk, pc, bi, si, wordQueue, completed, ghost, queries, net, log>>

\* a deepDiscover that walks the relations of every entry, whatever the depth
CandDelayAnyDepth ==
    /\ pc = "run"
    /\ frames # <<>>
    /\ Top.phase = "delay"
    /\ IF Top.data # <<>>
       THEN frames' = SetTop([Top EXCEPT !.phase = "rel", !.j = 1,
                                         !.rels = Relations(Top.data[1])])
       ELSE frames' = SetTop([Top EXCEPT !.phase = "cand", !.i = @ + 1])
    /\ lastOut' = "delay"
    /\ UNCHANGED <<env, disk, pc, batchVars, call, calls, ghost, queries, inflight, log>>

\* deepDiscover: the delay after the candidate is over; with depth > 1 and an
\* entry its relations are walked, else the next candidate is taken
CandDelay ==
    /\ pc = "run"
    /\ frames # <<>>
    /\ Top.phase = "delay"
    /\ IF argv.depth > 1 /\ Top.data # <<>>
       THEN frames' = SetTop([Top EXCEPT !.phase = "rel", !.j = 1,
                                         !.rels = Relations(Top.data[1])])
       ELSE frames' = SetTop([Top EXCEPT !.phase = "cand", !.i = @ + 1])
    /\ lastOut' = "delay"
    /\ UNCHANGED <<env, disk, pc, batchVars, call, calls, ghost, queries, inflight, log>>

\* deepDiscover: the head of for (const rel of relations)
RelNext ==
    /\ pc = "run"
    /\ frames # <<>>
    /\ Top.phase = "rel"
    /\ IF Top.j > Len(Top.rels)
       THEN /\ frames' = SetTop([Top EXCEPT !.phase = "cand", !.i = @ + 1])
            /\ call' = call
       ELSE IF VisitedKey(Top.rels[Top.j], Top.mode) \in processed
       THEN /\ frames' = SetTop([Top EXCEPT !.j = @ + 1])
            /\ call' = call
       ELSE /\ frames' = SetTop([Top EXCEPT !.phase = "relscrape"])
            /\ call' = BeginCall(Top.rels[Top.j], Top.mode)
    /\ UNCHANGED <<env, disk, pc, batchVars, calls, ghost, queries, net, log>>

\* a deepDiscover that also walks the relations of the entry of a relation
RelReturnDeep ==
    /\ pc = "run"
    /\ frames # <<>>
    /\ Top.phase = "relscrape"
    /\ call.phase = "ret"
    /\ frames' = SetTop([Top EXCEPT !.phase = "reldelay",
                                    !.rels = IF call.ret = <<>> THEN @
                                             ELSE @ \o Relations(call.ret[1])])
    /\ processed' = processed \cup {VisitedKey(Top.rels[Top.j], Top.mode)}
    /\ totalScraped' = totalScraped + 1
    /\ calls' = Append(calls, CallRecord)
    /\ call' = IdleCall
    /\ UNCHANGED <<env, disk, pc, bi, si, wordQueue, completed, ghost, queries, net, log>>

\* deepDiscover: scrapeWord(rel) returned; processed.add, totalScraped++, and
\* the delay starts
RelReturn ==
    /\ pc = "run"
    /\ frames # <<>>
    /\ Top.phase = "relscrape"
    /\ call.phase = "ret"
    /\ frames' = SetTop([Top EXCEPT !.phase = "reldelay"])
    /\ processed' = processed \cup {VisitedKey(Top.rels[Top.j], Top.mode)}
    /\ totalScraped' = totalScraped + 1
    /\ calls' = Append(calls, CallRecord)
    /\ call' = IdleCall
    /\ UNCHANGED <<env, disk, pc, bi, si, wordQueue, completed, ghost, queries, net, log>>

\* deepDiscover: the delay after a relation is over
RelDelay ==
    /\ pc = "run"
    /\ frames # <<>>
    /\ Top.phase = "reldelay"
    /\ frames' = SetTop([Top EXCEPT !.phase = "rel", !.j = @ + 1])
    /\ lastOut' = "delay"
    /\ UNCHANGED <<env, disk, pc, batchVars, call, calls, ghost, queries, inflight, log>>

\* deepDiscover: after the candidates, a full prefix below maxDepth is extended
\* by the next letter; otherwise deepDiscover returns to its caller
Expand ==
    /\ pc = "run"
    /\ frames # <<>>
    /\ Top.phase = "expand"
    /\ LET list == ExpandList(Top.mode, Batch.seeds)
       IN  IF /\ Len(Top.found) >= BranchThreshold
              /\ Len(Top.prefix) < MaxDepth(Top.mode)
              /\ Top.k <= Len(list)
           THEN /\ frames' = Append(SetTop([Top EXCEPT !.k = @ + 1]),
                                    NewFrame(Append(Top.prefix, list[Top.k]), Top.mode))
                /\ si' = si
                /\ queries' = Append(queries,
                                     NewQuery(Append(Top.prefix, list[Top.k]), Top.mode))
                /\ inflight' = Issue("search")
                /\ lastOut' = "request"
           ELSE /\ frames' = SubSeq(frames, 1, Len(frames) - 1)
                /\ si' = IF Len(frames) = 1 THEN si + 1 ELSE si
                /\ UNCHANGED <<queries, net>>
    /\ UNCHANGED <<env, disk, pc, bi, processed, wordQueue, totalScraped, call, calls,
                   completed, ghost, log>>

\* an exception that left scrapeWord: nothing in deepDiscover, runBatch or main
\* catches it, and the worker ends with an unhandled rejection
Crash ==
    /\ pc = "run"
    /\ call.phase = "threw"
    /\ pc' = "crashed"
    /\ calls' = Append(calls, CallRecord)
    /\ UNCHANGED <<env, disk, frames, batchVars, call, ghost, queries, net, log>>

\* ------------------------------------------------------------------------
\* The host process is terminated, and the worker is started again with the
\* same arguments
\* ------------------------------------------------------------------------

Kill ==
    /\ pc \in {"start", "batch", "run"}
    /\ pc' = "killed"
    /\ bi' = 0
    /\ si' = 0
    /\ frames' = <<>>
    /\ processed' = {}
    /\ wordQueue' = {}
    /\ totalScraped' = 0
    /\ call' = IdleCall
    /\ calls' = <<>>
    /\ completed' = {}
    /\ queries' = <<>>
    /\ inflight' = {}
    /\ lastOut' = "none"
    /\ log' = <<>>
    /\ UNCHANGED <<env, disk, ghost>>

Start ==
    /\ pc \in {"killed", "done", "crashed"}
    /\ prevEnd' = pc
    /\ filesAtStart' = files
    /\ pc' = "start"
    /\ bi' = 0
    /\ si' = 0
    /\ frames' = <<>>
    /\ processed' = {}
    /\ wordQueue' = {}
    /\ totalScraped' = 0
    /\ call' = IdleCall
    /\ calls' = <<>>
    /\ completed' = {}
    /\ queries' = <<>>
    /\ inflight' = {}
    /\ lastOut' = "none"
    /\ log' = <<>>
    /\ UNCHANGED <<env, disk, everNotFound>>

\* ------------------------------------------------------------------------
\* Properties
\* ------------------------------------------------------------------------

\* the record file of the call in progress
CallPath == FilePath(call.word, call.mode)

\* the call in progress has got the answer of fs.pathExists
PastExists == call.phase \notin {"idle", "exists"}

\* the call in progress found no record file when it was made
Missed == call.word # <<>> /\ call.had = <<>>

\* the page the site serves for the word of the call in progress
CallPage == remote.pages[Trim(call.word)]

\* C1: a scrapeWord call made when the record file of (mode, word) exists and
\* holds a complete record issues no outbound request, logs exactly the skip
\* line, and returns the stored record.
C1_CacheHit ==
    (PastExists /\ call.had # <<>> /\ call.had[1].complete)
        => /\ call.reqs = 0
           /\ call.events = <<"skip">>
           /\ call.phase \in {"read", "ret"}
           /\ call.phase = "ret" => call.ret = <<call.had[1].entry>>
           /\ files[CallPath] = call.had[1]

C1_Witness ==
    /\ call.phase = "ret"
    /\ call.outcome = "hit"
    /\ call.had # <<>>
    /\ call.ret = <<call.had[1].entry>>

\* the site answers every page request: each word has its page or is
\* reported as not found
NoTransportFailure ==
    \A w \in Words : remote.pages[w].kind \in {"ok", "notfound"}

\* C2: when the previous run of the batch ran to completion against the same
\* site, this run leaves the record files as it found them (stated for the
\* sites without transport failures, where a run differs from the one before
\* it by the record files alone).
C2_SecondRunWritesNothing ==
    (prevEnd = "done" /\ NoTransportFailure) => files = filesAtStart

\* a record file that is not being written by the call in progress
Settled(p) ==
    /\ p \in DOMAIN files
    /\ files[p].complete \/ ~(call.phase = "writing" /\ p = CallPath)

\* C3: once a record file exists (and the call that creates it is over or
\* dead), no step of any call, in this run or a later one, changes or
\* removes it.
C3_WriteOnce ==
    [][\A p \in DOMAIN files : Settled(p) => (p \in DOMAIN files' /\ files'[p] = files[p])]_vars

C3_Witness ==
    /\ call.phase = "ret"
    /\ call.outcome = "hit"
    /\ files[CallPath].entry.word # Trim(call.word)
    /\ prevEnd # "none"

\* C4: the process that is started after a kill finds every record file
\* complete: no partial record is visible to a later reader.
C4_AtomicWrite ==
    prevEnd = "killed" => \A p \in DOMAIN filesAtStart : filesAtStart[p].complete

\* C5: a run restarted after a kill does not end with an unhandled
\* exception, and serves every record that was complete before the kill as a
\* cache hit without a request.
C5_Resumable ==
    prevEnd = "killed"
        => /\ pc # "crashed"
           /\ (PastExists /\ CallPath \in DOMAIN filesAtStart /\ filesAtStart[CallPath].complete)
                => (call.reqs = 0 /\ call.events = <<"skip">>)

\* C6: no error met while one word is processed ends the worker: it never
\* stops with an unhandled exception before "Processing complete".
C6_NoErrorAbortsBatch == pc # "crashed"

\* C7: a call that finds a record file that is not a complete JSON document
\* issues no request, leaves the file as it is, returns nothing, and the
\* exception leaves scrapeWord.
C7_UnreadableRecordThrows ==
    (PastExists /\ call.had # <<>> /\ ~call.had[1].complete)
        => /\ call.reqs = 0
           /\ call.phase \in {"read", "threw"}
           /\ call.ret = <<>>
           /\ "scraping" \notin {call.events[n] : n \in 1..Len(call.events)}
           /\ CallPath \in DOMAIN files /\ files[CallPath] = call.had[1]

C7_Witness ==
    /\ call.phase = "threw"
    /\ pc = "crashed"
    /\ ~files[CallPath].complete

\* the calls of this process for the same mode and the same trimmed word as
\* finished call n
SameWord(n) ==
    {m \in 1..Len(calls) : /\ calls[m].mode = calls[n].mode
                           /\ Trim(calls[m].word) = Trim(calls[n].word)}

\* C8: a call whose page request or page parsing throws logs exactly one error
\* line, returns null and writes no record; the worker goes on (it is not
\* ended by the exception), and no later call of the run is made for that word.
C8_FetchErrorIsLocal ==
    /\ (Missed /\ call.phase \notin {"idle", "exists", "fetch"}
            /\ CallPage.kind \in {"fetcherr", "parseerr"})
        => /\ call.phase = "ret"
           /\ call.ret = <<>>
           /\ call.events = <<"scraping", "error">>
           /\ CallPath \notin DOMAIN files
           /\ pc = "run"
    /\ \A n \in 1..Len(calls) :
            calls[n].outcome = "error"
                => /\ SameWord(n) = {n}
                   /\ ~(call.phase # "idle" /\ call.mode = calls[n].mode
                            /\ Trim(call.word) = Trim(calls[n].word))

C8_Witness ==
    /\ Len(calls) >= 2
    /\ calls[1].outcome = "error"
    /\ remote.pages[Trim(calls[1].word)].kind \in {"fetcherr", "parseerr"}
    /\ calls[2].outcome = "stored"

\* C9: a call for a word the site reports as not found logs the not-found
\* line, returns null and writes no record; and every call made while no
\* record file exists for its key issues the page request, also for a word
\* reported not found before.
C9_NotFoundNotCached ==
    /\ (Missed /\ call.phase \notin {"idle", "exists", "fetch"} /\ CallPage.kind = "notfound")
        => /\ call.phase = "ret"
           /\ call.ret = <<>>
           /\ call.events = <<"scraping", "notfound">>
           /\ CallPath \notin DOMAIN files
    /\ (Missed /\ PastExists /\ <<call.word, call.mode>> \in everNotFound)
        => (call.reqs >= 1 /\ call.events[1] = "scraping")

C9_Witness ==
    /\ prevEnd = "done"
    /\ call.phase = "fetch"
    /\ <<call.word, call.mode>> \in everNotFound

\* C10: in one run no two scrapeWord calls are made for the same mode and the
\* same normalized word (file key).
C10_OncePerNormalizedKey ==
    \A m, n \in 1..Len(calls) :
        (m # n /\ calls[m].mode = calls[n].mode)
            => FileKey(calls[m].word) # FileKey(calls[n].word)

\* C11: every prefix passed to discoverWords has at most 4 symbols in mode
\* EN_KH (1) and at most 5 in the Khmer modes (2, 3), whatever the search
\* endpoint answers.
C11_TraversalBound ==
    \A n \in 1..Len(queries) :
        Len(queries[n].prefix) <= (IF queries[n].mode = 1 THEN 4 ELSE 5)

\* the discoverWords call has returned
Returned(q) == q.found # <<>>

C11_Witness ==
    /\ pc = "done"
    /\ \E n \in 1..Len(queries) :
          /\ Returned(queries[n])
          /\ Len(queries[n].found[1]) >= 9
          /\ \/ queries[n].mode = 1 /\ Len(queries[n].prefix) = 4
             \/ queries[n].mode = 3 /\ Len(queries[n].prefix) = 5

\* the symbols a prefix of the mode is extended with: the Latin alphabet for
\* EN_KH, the seed alphabet of the batch for the Khmer modes
AlphabetOf(mode) ==
    IF mode = 1 THEN {EN_ALPHABET[i] : i \in 1..Len(EN_ALPHABET)}
    ELSE {KH_ALL_SEEDS[i] : i \in 1..Len(KH_ALL_SEEDS)}

\* the symbols of the model's alphabets
Symbols == {"a", "b", "c", "ka", "kha", "ko"}

\* the <<mode, prefix>> discoverWords was called with
Issued == {<<queries[n].mode, queries[n].prefix>> : n \in 1..Len(queries)}

\* the prefixes of issued, in mode, that extend prefix by one symbol
ChildrenOf(issued, prefix, mode) ==
    {x \in {Append(prefix, c) : c \in Symbols} : <<mode, x>> \in issued}

\* the discovery of q calls for expansion: at least 9 candidates, the visited
\* ones counted, and a prefix shorter than the depth limit of the mode
MustExpand(q) ==
    /\ Returned(q)
    /\ Len(q.found[1]) >= 9
    /\ Len(q.prefix) < (IF q.mode = 1 THEN 4 ELSE 5)

\* C12: deepDiscover(prefix) issues discovery for prefix+c, for every symbol c
\* of the alphabet of the mode, if and only if discovery for prefix returned
\* at least 9 candidates and the prefix is shorter than the depth limit;
\* otherwise it issues no longer prefix.
C12_ExpansionRule ==
    LET issued == Issued
    IN  \A n \in 1..Len(queries) :
            LET q == queries[n]
                kids == ChildrenOf(issued, q.prefix, q.mode)
            IN  /\ ~MustExpand(q) => kids = {}
                /\ kids \subseteq {Append(q.prefix, c) : c \in AlphabetOf(q.mode)}
                /\ (MustExpand(q) /\ q.mode \in completed)
                      => kids = {Append(q.prefix, c) : c \in AlphabetOf(q.mode)}

C12_Witness ==
    /\ pc = "done"
    /\ \E n \in 1..Len(queries) :
          MustExpand(queries[n]) /\ ChildrenOf(Issued, queries[n].prefix, queries[n].mode) # {}
    /\ \E n \in 1..Len(queries) :
          /\ Len(queries[n].found[1]) = 8
          /\ Len(queries[n].prefix) < 4
    /\ \E n \in 1..Len(queries) :
          /\ Len(queries[n].found[1]) >= 9
          /\ ~MustExpand(queries[n])

\* the first deepDiscover of an EN_KH batch has just returned, its discovery
\* having returned two distinct candidates, and no relation was there to follow
TwoCandidateSeed ==
    /\ pc = "run"
    /\ frames = <<>>
    /\ si = 2
    /\ Batch.mode = 1
    /\ Returned(queries[1])
    /\ Len(queries[1].found[1]) = 2
    /\ ToLower(Trim(queries[1].found[1][1])) # ToLower(Trim(queries[1].found[1][2]))
    /\ \/ argv.depth = 1
       \/ \A n \in 1..Len(calls) :
             calls[n].ret # <<>> => Relations(calls[n].ret[1]) = <<>>

Candidates ==
    UNION {{<<queries[n].mode, queries[n].found[1][i]>> : i \in 1..Len(queries[n].found[1])} :
              n \in {m \in 1..Len(queries) : Returned(queries[m])}}

\* the members of a sequence
Range(list) == {list[i] : i \in 1..Len(list)}

\* C14: every word passed to scrapeWord is a candidate returned by
\* discoverWords, or a member of synonyms, antonyms or similar_words of the
\* entry returned for such a candidate; the relations of a relation are not
\* extracted on that account.
C14_OneHop ==
    LET cands == Candidates
    IN  \A n \in 1..Len(calls) :
            \/ <<calls[n].mode, calls[n].word>> \in cands
            \/ \E m \in 1..(n - 1) :
                  /\ calls[m].via = "cand"
                  /\ calls[m].mode = calls[n].mode
                  /\ <<calls[m].mode, calls[m].word>> \in cands
                  /\ calls[m].ret # <<>>
                  /\ calls[n].word \in Range(calls[m].ret[1].synonyms)
                                       \cup Range(calls[m].ret[1].antonyms)
                                       \cup Range(calls[m].ret[1].similar_words)

C14_Witness ==
    /\ pc = "done"
    /\ \E n \in 1..Len(calls) :
          /\ calls[n].via = "rel"
          /\ calls[n].ret # <<>>
          /\ \E w \in Range(calls[n].ret[1].similar_words) :
                \A m \in 1..Len(calls) : ToLower(Trim(calls[m].word)) # ToLower(Trim(w))

\* C15: at most one outbound request (discovery query, detail-page fetch or
\* media download) is in flight at any point of a batch run.
C15_OneRequestInFlight == Cardinality(inflight) <= 1

C15_Witness ==
    /\ \E r \in inflight : r.kind = "media"
    /\ Len(queries) >= 1
    /\ call.reqs = 2

\* C16: no outbound request is issued right after another one: the delay
\* elapses between any two of them.
C16_DelayBetweenRequests == \A r \in inflight : r.after # "request"

\* C17: a failed discovery request yields an empty candidate sequence:
\* deepDiscover processes no candidate for that prefix, does not expand it,
\* and goes on with the next prefix.
C17_DiscoveryErrorIsEmpty ==
    \A n \in 1..Len(queries) :
        LET q == queries[n]
        IN  (Returned(q) /\ q.prefix \in remote.failing)
               => /\ q.found = << <<>> >>
                  /\ \A m \in 1..Len(calls) :
                        ~(calls[m].prefix = q.prefix /\ calls[m].mode = q.mode)
                  /\ ChildrenOf(Issued, q.prefix, q.mode) = {}
                  /\ q.mode \in completed
                        => \A c \in AlphabetOf(q.mode) :
                              \E k \in 1..Len(queries) :
                                 /\ queries[k].mode = q.mode
                                 /\ queries[k].prefix =
                                       Append(SubSeq(q.prefix, 1, Len(q.prefix) - 1), c)

C17_Witness ==
    /\ pc = "done"
    /\ \E n \in 1..(Len(queries) - 1) :
          /\ queries[n].prefix \in remote.failing
          /\ IsFull(remote.full, queries[n].prefix)
          /\ queries[n].found = << <<>> >>
          /\ Returned(queries[n + 1])
          /\ queries[n + 1].found[1] # <<>>

\* the partitions of the record store
Partitions == {"en_kh", "kh_kh", "kh_en"}

\* C20: every record file sits at <partition>/<normalize(record.word)>.json
\* with record.type equal to the partition name, and there is at most one
\* record per (partition, normalize(word)).
C20_RecordAddressing ==
    LET addr == {<<p, <<files[p].entry.type, FileKey(files[p].entry.word)>>>> :
                    p \in DOMAIN files}
    IN  /\ \A a \in addr : a[2][1] \in Partitions /\ a[1] = a[2]
        /\ \A a, b \in addr : a[2] = b[2] => a[1] = b[1]

C20_Witness ==
    /\ pc = "done"
    /\ Cardinality(DOMAIN files) >= 2
    /\ \E p \in DOMAIN files :
          /\ files[p].complete
          /\ files[p].entry.word # p[2]
    /\ \E p, q \in DOMAIN files : p[1] # q[1]


\* C18: a batch run always reaches its completion milestone: a worker that
\* has stopped of itself, with every network call, file operation and delay
\* having returned, has logged "Processing complete" for every batch of its
\* seed sets.
C18_RunCompletes ==
    pc \in {"done", "crashed"}
        => \A n \in 1..Len(TheBatches) : TheBatches[n].mode \in completed

\* ------------------------------------------------------------------------
\* C21: the three mode partitions are independent namespaces
\* ------------------------------------------------------------------------

\* the partition the records of a mode live in
PartitionOf(mode) == CASE mode = 1 -> "en_kh" [] mode = 2 -> "kh_kh" [] mode = 3 -> "kh_en"

\* the record files of partition p, with what each holds
RecordsOf(fs, p) == {<<path, fs[path]>> : path \in {q \in DOMAIN fs : q[1] = p}}

\* C21: a step of scrapeWord(word, m) leaves the records of the two other
\* partitions as they are, and the call goes to the "read" branch exactly when
\* a record of the word exists in mode m's own partition, whatever the other
\* partitions hold
C21_PartitionsIndependent ==
    [][ /\ \A p \in Partitions :
              RecordsOf(files', p) # RecordsOf(files, p)
                  => call.word # <<>> /\ p = PartitionOf(call.mode)
        /\ (call.phase = "exists" /\ call'.phase \in {"read", "fetch"})
              => (call'.phase = "read"
                    <=> <<PartitionOf(call.mode), FileKey(call.word)>> \in DOMAIN files)
      ]_vars

\* a mode-3 call has stored its record although the kh_kh partition held a
\* record under the same name, which is still there
C21_Witness ==
    /\ call.mode = 3
    /\ call.outcome = "stored"
    /\ ~call.hit
    /\ <<"kh_kh", FileKey(call.word)>> \in DOMAIN files
    /\ <<"kh_en", FileKey(call.word)>> \in DOMAIN files

\* ------------------------------------------------------------------------
\* C22: a failed media download
\* ------------------------------------------------------------------------

\* the media files entry e carries a local path for
LocalPathsOf(e) ==
    {<<"images", d.local_image_path[1]>> :
        d \in {e.definitions[i] : i \in {j \in 1..Len(e.definitions) :
                                          e.definitions[j].local_image_path # <<>>}}}
    \cup {<<"sounds", e.local_sound_path[i]>> : i \in 1..Len(e.local_sound_path)}

\* C22: when the download of a definition image or of the sound has failed,
\* the call still returns the entry, the entry is on disk, and it carries no
\* local path for the file that was not downloaded
C22_DownloadFailureLeavesPathUnset ==
    (call.phase = "ret" /\ call.failed # {})
        => /\ call.ret # <<>>
           /\ CallPath \in DOMAIN files
           /\ files[CallPath] = [complete |-> TRUE, entry |-> call.ret[1]]
           /\ LocalPathsOf(call.ret[1]) \cap call.failed = {}

\* ------------------------------------------------------------------------
\* C23: the limit argument
\* ------------------------------------------------------------------------

\* the words the process has extracted in mode m under the prefixes of seed s
ExtractedUnder(s, m) ==
    {calls[n].word : n \in {k \in 1..Len(calls) :
                              calls[k].mode = m /\ calls[k].prefix[1] = s}}

\* C23: for a worker started with limit L, at most L words are extracted under
\* the prefixes of any one seed
C23_LimitPerSeed ==
    \A n \in 1..Len(TheBatches) : \A i \in 1..Len(TheBatches[n].seeds) :
        Cardinality(ExtractedUnder(TheBatches[n].seeds[i], TheBatches[n].mode))
            <= argv.limitPerSeed

\* ------------------------------------------------------------------------
\* C24: the lines scrapeWord logs
\* ------------------------------------------------------------------------

\* s is the beginning of t
IsPrefix(s, t) == Len(s) <= Len(t) /\ SubSeq(t, 1, Len(s)) = s

\* the last n entries of the log
LastLines(n) == SubSeq(log, Len(log) - n + 1, Len(log))

\* what the call in progress has logged follows the protocol: first "skip" when
\* the record existed and "scraping" when it did not, then at most one of
\* "notfound" and "error", and only after "scraping"; these events are the
\* last entries of the log, one row each
EventProtocol ==
    (call.word # <<>> /\ PastExists)
        => /\ Len(call.events) \in {1, 2}
           /\ call.events[1] = IF call.had # <<>> THEN "skip" ELSE "scraping"
           /\ Len(call.events) = 2
                 => call.events[1] = "scraping" /\ call.events[2] \in {"notfound", "error"}
           /\ Len(log) >= Len(call.events)
           /\ LastLines(Len(call.events)) = LinesOf(call, 0)
           /\ \A n \in 1..Len(call.events) : LinesOf(call, 0)[n].rows = 1

SavedWords(m) ==
    {calls[n].word : n \in {k \in 1..Len(calls) :
                              calls[k].mode = m /\ calls[k].outcome = "stored"}}

\* C30: the count in the "Processing complete" line of a batch is the number
\* of words whose record was written during that batch
C30_TotalIsSaved ==
    \A n \in 1..Len(log) :
        log[n].kind = "complete" => log[n].total = Cardinality(SavedWords(log[n].mode))

\* ------------------------------------------------------------------------
\* C28: candidates and relations before extensions, extensions before the
\* next seed
\* ------------------------------------------------------------------------

\* the visited keys of the words extracted in mode m no later than query i
KeysBy(i, m) ==
    {VisitedKey(calls[n].word, m) :
        n \in {k \in 1..Len(calls) : calls[k].mode = m /\ calls[k].at <= i}}

\* the visited keys of the words extracted, each with the discovery it was
\* extracted under
ExtractedKeys ==
    {<<calls[n].at, VisitedKey(calls[n].word, calls[n].mode)>> : n \in 1..Len(calls)}

\* the visited keys of the candidates the discoveries returned, each with its
\* discovery
CandidateKeys ==
    UNION {{<<i, VisitedKey(w, queries[i].mode)>> :
              w \in UNION {Range(queries[i].found[n]) : n \in 1..Len(queries[i].found)}} :
           i \in 1..Len(queries)}

\* the visited keys of the relations the entries returned to candidate calls
\* list, each with the discovery of the candidate
RelationKeys ==
    UNION {{<<calls[n].at, VisitedKey(w, calls[n].mode)>> :
              w \in Range(Relations(calls[n].ret[1]))} :
           n \in {k \in 1..Len(calls) : calls[k].via = "cand" /\ calls[k].ret # <<>>}}

\* C28: every word is extracted while the discovery of its prefix is the
\* latest one issued; when a later discovery has been issued, every candidate
\* returned for the prefix and, with depth > 1, every relation of the entries
\* of its candidates has been extracted and is marked visited; and the
\* discoveries under one seed are not interrupted by those of another seed
\* (the seed changes along the discoveries as often as there are further seeds)
C28_DepthFirst ==
    /\ \A n \in 1..Len(calls) :
          /\ queries[calls[n].at].prefix = calls[n].prefix
          /\ queries[calls[n].at].mode = calls[n].mode
    /\ LET extracted == ExtractedKeys
           due == CandidateKeys \cup (IF argv.depth > 1 THEN RelationKeys ELSE {})
       IN  /\ \A i \in 1..(Len(queries) - 1) : queries[i].found # <<>>
           /\ \A t \in due :
                 t[1] < Len(queries)
                     => \E e \in extracted : e[1] <= t[1] /\ e[2] = t[2]
           /\ pc = "run"
                 => \A e \in extracted :
                       (e[1] < Len(queries) /\ e[2][1] = Batch.mode) => e[2] \in processed
    /\ LET seedOf == [k \in 1..Len(queries) |-> <<queries[k].mode, queries[k].prefix[1]>>]
           turns == {k \in 2..Len(queries) : seedOf[k] # seedOf[k - 1]}
       IN  queries # <<>> => Cardinality(Range(seedOf)) = Cardinality(turns) + 1

\* the discovery of an extension of a prefix has been issued after a candidate
\* of the prefix and a relation of that candidate were extracted, and the next
\* seed has been discovered after it
C28_Witness ==
    \E i, j, k \in 1..Len(queries) :
        /\ i < j /\ j < k
        /\ Len(queries[j].prefix) = Len(queries[i].prefix) + 1
        /\ SubSeq(queries[j].prefix, 1, Len(queries[i].prefix)) = queries[i].prefix
        /\ queries[k].prefix[1] # queries[i].prefix[1]
        /\ \E n \in 1..Len(calls) : calls[n].at = i /\ calls[n].via = "rel"

\* ------------------------------------------------------------------------
\* C29: when relations are followed
\* ------------------------------------------------------------------------

\* the candidate call, earlier than call n, whose entry lists the word of call n
ParentsOf(n) ==
    {m \in 1..(n - 1) :
        /\ calls[m].via = "cand"
        /\ calls[m].at = calls[n].at
        /\ calls[m].word = calls[n].of
        /\ calls[m].ret # <<>>
        /\ calls[n].word \in Range(Relations(calls[m].ret[1]))}

\* C29: a word is extracted as a relation only with depth > 1 and for a
\* candidate whose call returned an entry that lists it, and a visited key is
\* marked only for a word that was extracted: with depth <= 1, or after a null
\* return, no relation of the candidate is extracted or marked visited
C29_RelationsFollowed ==
    /\ \A n \in 1..Len(calls) :
          calls[n].via = "rel" => argv.depth > 1 /\ ParentsOf(n) # {}
    /\ (frames # <<>> /\ Top.phase \in {"rel", "relscrape", "reldelay"})
          => argv.depth > 1 /\ Top.data # <<>>
    /\ pc = "run" => processed \subseteq KeysBy(Len(queries), Batch.mode)

\* a run with depth 1 is over, and a relation the entry of a candidate lists
\* was never extracted
C29_Witness ==
    /\ argv.depth = 1
    /\ pc = "done"
    /\ \E n \in 1..Len(calls) :
          /\ calls[n].ret # <<>>
          /\ \E w \in Range(Relations(calls[n].ret[1])) :
                \A m \in 1..Len(calls) : calls[m].word # w

\* ------------------------------------------------------------------------
\* C31: the media fields
\* ------------------------------------------------------------------------

\* entry e carries no sound and no image reference
NoMediaFields(e) ==
    /\ e.sound_url = <<>>
    /\ e.local_sound_path = <<>>
    /\ \A i \in 1..Len(e.definitions) :
          /\ e.definitions[i].khmer_image_url = <<>>
          /\ e.definitions[i].local_image_path = <<>>

\* C31: no record of the kh_kh or of the kh_en partition carries a sound_url,
\* local_sound_path, khmer_image_url or local_image_path, and the entry a
\* mode-1 call builds has the sound reference of the page whenever the page
\* has an audio reference (the records are looked at when a process starts
\* and each time a record has been put on disk, the entry when it has been
\* built)
C31_MediaFieldsEnKhOnly ==
    /\ (pc = "start" \/ call.phase = "writing")
          => \A path \in DOMAIN files :
                path[1] \in {"kh_kh", "kh_en"} => NoMediaFields(files[path].entry)
    /\ (call.mode = 1 /\ call.result # <<>> /\ call.phase \in {"dlcheck", "write"})
          => call.result[1].sound_url = remote.pages[Trim(call.word)].audio

\* a record of a Khmer partition was stored from a page that has an image row
\* and an audio reference
C31_Witness ==
    /\ call.mode \in {2, 3}
    /\ call.outcome = "stored"
    /\ remote.pages[Trim(call.word)].audio # <<>>
    /\ \E i \in 1..Len(remote.pages[Trim(call.word)].rows) :
          remote.pages[Trim(call.word)].rows[i].img # <<>>
    /\ files[CallPath].complete

Next ==
    \/ StartMain \/ StartBatch \/ NextSeed \/ FinishBatch \/ FinishMain
    \/ DiscoverReturn \/ CandNext \/ CandReturn \/ CandDelay
    \/ RelNext \/ RelReturn \/ RelDelay \/ Expand \/ Crash
    \/ SW_Exists \/ SW_Read \/ SW_Fetch \/ SW_DownloadCheck \/ SW_Download
    \/ SW_WriteOpen \/ SW_WriteDone
    \/ Kill \/ Start

Spec == Init /\ [][Next]_vars

\* ------------------------------------------------------------------------
\* The file name of a word, computed on its own
\* ------------------------------------------------------------------------

\* the longest word a file name is computed for
MaxWordLen == 3

\* one character of each class the file name treats differently: a lower-case
\* and an upper-case letter, a Khmer letter, white space, the parentheses,
\* the underscore, and another character outside the safe class
NormChars == {"a", "B", "ka", " ", "(", ")", "_", "-"}

RECURSIVE StringsOver(_, _)
\* the strings of at most n characters of C
StringsOver(C, n) ==
    IF n = 0 THEN {<<>>}
    ELSE LET shorter == StringsOver(C, n - 1)
         IN  shorter \cup {Append(t, c) : t \in shorter, c \in C}

\* the parenthetical notes the site appends to a word
Notes == StringsOver({"n", " ", "(", ")"}, 2)

\* the word as the site shows it with a note: another case, and the note in
\* parentheses after sep
Decorate(word, sep, note) == ToUpper(word) \o sep \o <<"(">> \o note \o <<")">>

\* the state of the batch worker
worker == <<remote, argv, disk, pc, frames, batchVars, call, calls, ghost, queries, net, log>>

\* the worker at rest, before a site that knows no word
Parked ==
    /\ argv = [type |-> "en", depth |-> 1, limitPerSeed |-> LimitPerSeed]
    /\ remote = Site(Words, "notfound", LinksNone, DeepCands, {}, "ok", "never", {})
    /\ files = << >>
    /\ media = {}
    /\ Fresh
    /\ prevEnd = "none"
    /\ filesAtStart = << >>
    /\ everNotFound = {}
    /\ log = <<>>

NormInit ==
    /\ Parked
    /\ parse = NoParse
    /\ crawl = NoCrawl
    /\ sql = NoSql
    /\ norm \in {[NoNorm EXCEPT !.step = "word", !.word = w] :
                    w \in StringsOver(NormChars, MaxWordLen)}

\* scrapeWord computes the base name of filePath for the word
NormWord ==
    /\ norm.step = "word"
    /\ norm' = [norm EXCEPT !.step = "key", !.key = FileKey(norm.word)]
    /\ UNCHANGED <<worker, parse, crawl, sql>>

\* scrapeWord computes the base name of filePath for the name it has computed
NormAgain ==
    /\ norm.step = "key"
    /\ norm' = [norm EXCEPT !.step = "again", !.again = FileKey(norm.key)]
    /\ UNCHANGED <<worker, parse, crawl, sql>>

\* scrapeWord computes the base name of filePath for the word with a note
NormNoted ==
    /\ norm.step = "again"
    /\ \E sep \in {<<>>, <<" ">>}, note \in Notes :
          norm' = [norm EXCEPT !.step = "noted",
                               !.noted = <<Decorate(norm.word, sep, note),
                                           FileKey(Decorate(norm.word, sep, note))>>]
    /\ UNCHANGED <<worker, parse, crawl, sql>>

NormNext == NormWord \/ NormAgain \/ NormNoted

NormSpec == NormInit /\ [][NormNext]_vars

\* a word without a parenthetical note
Bare(word) == \A i \in 1..Len(word) : word[i] \notin {"(", ")"}

\* C19: the file name key is idempotent, normalize(normalize(s)) =
\* normalize(s) with the 'empty' sentinel included, and a bare word written
\* in another case and followed by a parenthetical note has the key of the
\* bare lower-case word.
C19_NormalizeStable ==
    /\ norm.step \in {"again", "noted"} => norm.again = norm.key
    /\ norm.step \in {"key", "again", "noted"}
          => /\ norm.key # <<>>
             /\ SafeFilename(norm.word) = <<>> => norm.key = EmptyName
    /\ (norm.step = "noted" /\ Bare(norm.word))
          => norm.noted[2] = FileKey(ToLower(norm.word))

C19_Witness ==
    /\ norm.step = "noted"
    /\ Bare(norm.word)
    /\ norm.word # <<>>
    /\ norm.key = EmptyName
    /\ norm.noted[2] = EmptyName

\* ------------------------------------------------------------------------
\* The parsing of a detail page on its own
\* ------------------------------------------------------------------------

\* how many definition rows a parsed page has at most
MaxRows == 2

\* how many links a parsed relation section has at most
MaxLinks == 3

\* the headwords the pages are parsed for
ParseWords == {<<"a">>, <<"A", " ">>, <<"ka">>}

\* the glosses of the definition rows: the headword in either case, with an
\* ordinal before it, one character, two characters, Khmer
Glosses ==
    {<<"a">>, <<"A">>, <<"1", ".", " ", "a">>, <<"d">>, <<"1", ".", "d">>, <<"d", "e">>,
     <<"ka">>, <<"ka", "kha">>}

\* the definition rows: the gloss in the td.khbat12 and in the td.text2 cell,
\* or in place of the Khmer text an image
ParseRows ==
    {[NoRow EXCEPT !.hasKhbat12 = TRUE, !.hasText2 = TRUE, !.khmer = g, !.english = g] :
        g \in Glosses}
    \cup {[NoRow EXCEPT !.hasKhbat12 = TRUE, !.hasText2 = TRUE, !.img = <<"i1">>,
                        !.english = g] : g \in {<<"d">>, <<"d", "e">>}}

\* the link texts of a relation section
LinkTexts == {<<"a">>, <<"A">>, <<"b">>, <<"B">>, <<" ", "b">>, <<" ">>}

\* a detail page with the given rows and no relation
RowsPage(rows) ==
    [kind |-> "ok", rows |-> rows, audio |-> <<>>, syn |-> <<>>, ant |-> <<>>, sim |-> <<>>]

\* the pages that are parsed: up to MaxRows definition rows, or up to MaxLinks
\* links in one of the three relation sections
ParsePages ==
    {RowsPage(rows) : rows \in StringsOver(ParseRows, MaxRows) \ {<<>>}}
    \cup {[RowsPage(TextRows) EXCEPT !.syn = l] : l \in StringsOver(LinkTexts, MaxLinks)}
    \cup {[RowsPage(TextRows) EXCEPT !.ant = l] : l \in StringsOver(LinkTexts, MaxLinks)}
    \cup {[RowsPage(TextRows) EXCEPT !.sim = l] : l \in StringsOver(LinkTexts, MaxLinks)}

ParseInit ==
    /\ Parked
    /\ norm = NoNorm
    /\ crawl = NoCrawl
    /\ sql = NoSql
    /\ parse \in {[NoParse EXCEPT !.step = "page", !.word = w, !.mode = m, !.page = <<p>>] :
                    w \in ParseWords, m \in 1..3, p \in ParsePages}

\* scrapeWord builds the result object from the page
ParseEntry ==
    /\ parse.step = "page"
    /\ parse' = [parse EXCEPT !.step = "entry",
                              !.entry = <<ParsePage(parse.page[1], parse.word, parse.mode)>>]
    /\ UNCHANGED <<worker, norm, crawl, sql>>

ParseNext == ParseEntry

ParseSpec == ParseInit /\ [][ParseNext]_vars

\* the gloss of a definition of the entry
GlossOf(d) == d.definition_text \o d.khmer_text

\* C25: in each of the three modes, no definition of the entry has a gloss
\* that, after its ordinal prefix is stripped, equals the headword in any
\* case, and none has a gloss of fewer than 2 characters without an image
C25_DegenerateFilter ==
    parse.step = "entry"
        => \A i \in 1..Len(parse.entry[1].definitions) :
              LET d == parse.entry[1].definitions[i]
              IN  \A n \in 1..Len(GlossOf(d)) :
                     /\ ToLower(StripOrdinal(GlossOf(d)[n])) # ToLower(Trim(parse.word))
                     /\ Len(StripOrdinal(GlossOf(d)[n])) < 2 => d.khmer_image_url # <<>>

\* the first place of w among the trimmed texts of links
FirstAt(links, w) == Min({i \in 1..Len(links) : Trim(links[i]) = w})

\* list has no two equal strings, has no string that is the headword in any
\* case, and holds trimmed link texts of the section in the order of their
\* first occurrence
CleanList(list, links, headword) ==
    /\ \A i, j \in 1..Len(list) : i # j => list[i] # list[j]
    /\ \A i \in 1..Len(list) : ToLower(list[i]) # ToLower(headword)
    /\ \A i \in 1..Len(list) : \E n \in 1..Len(links) : Trim(links[n]) = list[i]
    /\ \A i, j \in 1..Len(list) : i < j => FirstAt(links, list[i]) < FirstAt(links, list[j])

\* C26: synonyms, antonyms and similar_words of the entry have no two equal
\* strings, do not hold the headword in any case, and keep the order in which
\* the page first shows each string
C26_RelationLists ==
    parse.step = "entry"
        => LET e == parse.entry[1]
               p == parse.page[1]
           IN  /\ CleanList(e.synonyms, p.syn, e.word)
               /\ CleanList(e.antonyms, p.ant, e.word)
               /\ CleanList(e.similar_words, p.sim, e.word)

\* a section that shows a word twice, the headword in another case and a
\* word in two cases gives a list of the two spellings of the word
C26_Witness ==
    /\ parse.step = "entry"
    /\ parse.word = <<"A", " ">>
    /\ parse.page[1].sim = <<<<"b">>, <<" ", "b">>, <<"B">>>>
    /\ parse.entry[1].similar_words = <<<<"b">>, <<"B">>>>

\* ------------------------------------------------------------------------
\* The single-word crawler: node src/index.js <word> <mode> <depth>
\* ------------------------------------------------------------------------

\* the largest depth argument the crawler is started with
MaxCrawlDepth == 3

\* main: limit, the safety limit on visited.size
CrawlLimit == 50

\* the mode arguments the crawler is started with: parseInt(process.argv[3])
\* is handed to scrapeWord as it is, so besides the three modes any other number
CrawlModes == {1, 2, 3, 4}

\* the words the crawler is started with
CrawlStarts == {wa, wan, wb}

\* the letters of the words of the wide site
FanLetters == <<"c", "d", "e", "m", "n", "p", "t", "y">>

\* the words of the wide site: every two-letter word over FanLetters, more
\* words than the safety limit allows
FanList ==
    [n \in 1..(Len(FanLetters) * Len(FanLetters)) |->
        <<FanLetters[((n - 1) \div Len(FanLetters)) + 1],
          FanLetters[((n - 1) % Len(FanLetters)) + 1]>>]

\* the detail pages of the wide site: the page of "a" lists every word of
\* FanList as similar word and the first of them as synonyms too, and the page
\* of the first word lists "a", itself and the second word
FanPages ==
    [w \in Words \cup Range(FanList) |->
        [RowsPage(TextRows) EXCEPT
            !.sim = IF w = wa THEN FanList ELSE <<>>,
            !.syn = IF w = wa THEN SubSeq(FanList, 1, Len(FanLetters))
                    ELSE IF w = FanList[1] THEN <<wa, w, FanList[2]>>
                    ELSE <<>>]]

\* a site with more words one hop from "a" than the safety limit
FanSite ==
    [pages |-> FanPages, cands |-> DeepCands, full |-> "never", failing |-> {}, dl |-> "ok"]

\* the sites the crawler runs against: every link map, with no or one failing
\* page, and with or without a page that carries media; and the wide site
CrawlSites ==
    { Site(b.bad, b.kind, links, DeepCands, v.rich, v.dl, "never", {}) :
        b \in {[bad |-> {}, kind |-> "notfound"]}
              \cup {[bad |-> {w}, kind |-> k] : w \in Frail, k \in {"notfound", "fetcherr"}},
        links \in LinkMaps,
        v \in {[rich |-> {}, dl |-> "ok"]}
              \cup {[rich |-> {wb}, dl |-> o] : o \in DownloadOutcomes} }
    \cup {FanSite}

\* the record of the start word an interrupted earlier run has left half-written
PartialRecord(word, mode) ==
    FilePath(word, mode) :>
        [complete |-> FALSE,
         entry |-> ParsePage(RowsPage(TextRows), word, mode)]

CrawlInit ==
    /\ argv = [type |-> "en", depth |-> 1, limitPerSeed |-> LimitPerSeed]
    /\ remote \in CrawlSites
    /\ media = {}
    /\ Fresh
    /\ prevEnd = "none"
    /\ filesAtStart = << >>
    /\ everNotFound = {}
    /\ log = <<>>
    /\ norm = NoNorm
    /\ parse = NoParse
    /\ sql = NoSql
    /\ crawl \in {[NoCrawl EXCEPT !.pc = "loop", !.word = w, !.mode = m, !.depth = d,
                                  !.queue = << [word |-> w, currentDepth |-> 1] >>] :
                    w \in CrawlStarts, m \in CrawlModes, d \in 1..MaxCrawlDepth}
    /\ files \in {<< >>, PartialRecord(crawl.word, crawl.mode)}

\* what the scrapeWord actions and the crawler leave alone
crawlRest == <<remote, argv, norm, parse, sql, pc, frames, batchVars, calls, ghost, queries>>

\* a crawler without the safety limit
CrawlTakeUnbounded ==
    /\ crawl.pc = "loop"
    /\ crawl.queue # <<>>
    /\ LET item == Head(crawl.queue)
       IN  IF VisitedKey(item.word, crawl.mode) \in crawl.visited
           THEN /\ crawl' = [crawl EXCEPT !.queue = Tail(@)]
                /\ call' = call
           ELSE /\ crawl' = [crawl EXCEPT !.queue = Tail(@), !.cur = <<item>>, !.pc = "call"]
                /\ call' = BeginCall(item.word, crawl.mode)
    /\ UNCHANGED <<crawlRest, disk, net, log>>

\* main: the head of the while loop: queue.shift(); a visited word is passed
\* over, a new one is handed to scrapeWord
CrawlTake ==
    /\ crawl.pc = "loop"
    /\ crawl.queue # <<>>
    /\ Cardinality(crawl.visited) < CrawlLimit
    /\ LET item == Head(crawl.queue)
       IN  IF VisitedKey(item.word, crawl.mode) \in crawl.visited
           THEN /\ crawl' = [crawl EXCEPT !.queue = Tail(@)]
                /\ call' = call
           ELSE /\ crawl' = [crawl EXCEPT !.queue = Tail(@), !.cur = <<item>>, !.pc = "call"]
                /\ call' = BeginCall(item.word, crawl.mode)
    /\ UNCHANGED <<crawlRest, disk, net, log>>

\* main: the loop ends, with an empty queue or at the safety limit
CrawlStop ==
    /\ crawl.pc = "loop"
    /\ crawl.queue = <<>> \/ Cardinality(crawl.visited) >= CrawlLimit
    /\ crawl' = [crawl EXCEPT !.pc = "done"]
    /\ UNCHANGED <<crawlRest, disk, net, log, call>>

\* main: scrapeWord returned data; visited.add, and the delay starts
CrawlReturn ==
    /\ crawl.pc = "call"
    /\ call.phase = "ret"
    /\ crawl' = [crawl EXCEPT
                    !.pc = "delay",
                    !.visited = @ \cup {VisitedKey(crawl.cur[1].word, crawl.mode)},
                    !.data = call.ret,
                    !.scraped = Append(@, [word |-> crawl.cur[1].word,
                                           currentDepth |-> crawl.cur[1].currentDepth,
                                           ret |-> call.ret])]
    /\ call' = IdleCall
    /\ UNCHANGED <<crawlRest, disk, net, log>>

\* the relations of data that are not visited, each with the given depth
Pushed(data, visited, mode, d) ==
    LET rels == SelectSeq(Relations(data), LAMBDA w : VisitedKey(w, mode) \notin visited)
    IN  [n \in 1..Len(rels) |-> [word |-> rels[n], currentDepth |-> d]]

\* a crawler that follows the relations of the words at the depth limit too
CrawlDelayOneMore ==
    /\ crawl.pc = "delay"
    /\ crawl' = [crawl EXCEPT
                    !.pc = "loop",
                    !.queue = IF crawl.cur[1].currentDepth <= crawl.depth /\ crawl.data # <<>>
                              THEN @ \o Pushed(crawl.data[1], crawl.visited, crawl.mode,
                                               crawl.cur[1].currentDepth + 1)
                              ELSE @]
    /\ lastOut' = "delay"
    /\ UNCHANGED <<crawlRest, disk, inflight, log, call>>

\* main: the 800 ms delay is over; below the depth limit the relations of the
\* entry that are not visited are pushed on the queue
CrawlDelay ==
    /\ crawl.pc = "delay"
    /\ crawl' = [crawl EXCEPT
                    !.pc = "loop",
                    !.queue = IF crawl.cur[1].currentDepth < crawl.depth /\ crawl.data # <<>>
                              THEN @ \o Pushed(crawl.data[1], crawl.visited, crawl.mode,
                                               crawl.cur[1].currentDepth + 1)
                              ELSE @]
    /\ lastOut' = "delay"
    /\ UNCHANGED <<crawlRest, disk, inflight, log, call>>

\* an exception that left scrapeWord: main does not catch it, and the crawler
\* ends with an unhandled rejection
CrawlCrash ==
    /\ crawl.pc = "call"
    /\ call.phase = "threw"
    /\ crawl' = [crawl EXCEPT !.pc = "crashed"]
    /\ UNCHANGED <<crawlRest, disk, net, log, call>>

CrawlNext ==
    \/ CrawlTake \/ CrawlStop \/ CrawlReturn \/ CrawlDelay \/ CrawlCrash
    \/ SW_Exists \/ SW_Read \/ SW_Fetch \/ SW_DownloadCheck \/ SW_Download
    \/ SW_WriteOpen \/ SW_WriteDone

CrawlSpec == CrawlInit /\ [][CrawlNext]_vars

\* entry e lists word w as a relation
Lists(e, w) ==
    \/ \E i \in 1..Len(e.synonyms) : e.synonyms[i] = w
    \/ \E i \in 1..Len(e.similar_words) : e.similar_words[i] = w
    \/ \E i \in 1..Len(e.antonyms) : e.antonyms[i] = w

RECURSIVE Within(_, _)
\* word w is at most k relation hops away from the start word: it is the
\* start word, or an entry scrapeWord returned for a word at most k - 1 hops
\* away lists it
Within(w, k) ==
    \/ w = crawl.word
    \/ k > 0 /\ \E n \in 1..Len(crawl.scraped) :
                    /\ crawl.scraped[n].ret # <<>>
                    /\ Lists(crawl.scraped[n].ret[1], w)
                    /\ Within(crawl.scraped[n].word, k - 1)

\* C27: a crawler started with depth d hands to scrapeWord only words at most
\* d - 1 relation hops away from the start word (looked at when the call
\* starts and when it returns); with d = 1 no relation is put
\* on the queue, and the crawler ends having extracted the start word alone
C27_CrawlDepth ==
    crawl.pc # "off"
        => /\ (crawl.pc = "call" /\ call.phase \in {"exists", "ret"})
                 => Within(crawl.cur[1].word, crawl.depth - 1)
           /\ crawl.depth = 1
                 => /\ \A n \in 1..Len(crawl.queue) : crawl.queue[n].word = crawl.word
                    /\ Len(crawl.scraped) <= 1
                    /\ crawl.pc = "done"
                          => Len(crawl.scraped) = 1 /\ crawl.scraped[1].word = crawl.word

\* a crawler started with depth 2 has ended after the start word and a
\* relation of it, and a word the entry of the relation lists, two hops away,
\* was not extracted
C27_Witness ==
    /\ crawl.pc = "done"
    /\ crawl.depth = 2
    /\ Len(crawl.scraped) >= 2
    /\ \E n \in 1..Len(crawl.scraped) :
          /\ crawl.scraped[n].ret # <<>>
          /\ \E w \in Range(Relations(crawl.scraped[n].ret[1])) :
                /\ ~Within(w, 1)
                /\ \A m \in 1..Len(crawl.scraped) : crawl.scraped[m].word # w

\* the visited keys of the words the crawler has handed to scrapeWord and got
\* an answer for
ScrapedKeys == {VisitedKey(crawl.scraped[n].word, crawl.mode) : n \in 1..Len(crawl.scraped)}

\* after each return of scrapeWord, and at the end: at most CrawlLimit
\* extractions were made, no two of them for the same visited key; and the
\* word of a call in progress has not been extracted before
WithinLimit ==
    /\ crawl.pc \in {"delay", "done", "crashed"}
          => /\ Len(crawl.scraped) <= CrawlLimit
             /\ Cardinality(ScrapedKeys) = Len(crawl.scraped)
    /\ (crawl.pc = "call" /\ call.phase \in {"exists", "ret"})
          => /\ Len(crawl.scraped) < CrawlLimit
             /\ VisitedKey(crawl.cur[1].word, crawl.mode) \notin ScrapedKeys
    /\ Cardinality(crawl.visited) <= CrawlLimit

\* an upper bound of the steps a scrapeWord call has left
StepsLeft(phase, dl) ==
    CASE phase = "exists" -> 12
      [] phase \in {"read", "fetch"} -> 11
      [] phase = "dlcheck" -> 12 - 2 * dl
      [] phase = "dl" -> 11 - 2 * dl
      [] phase = "write" -> 2
      [] phase = "writing" -> 1
      [] OTHER -> 0

\* the crawler is not stuck: until it has ended, it is at the loop head, in
\* the delay, or awaits a scrapeWord call that has a step to take
Runnable ==
    \/ crawl.pc \in {"loop", "delay", "done", "crashed"}
    \/ /\ crawl.pc = "call"
       /\ call.phase \in {"exists", "read", "fetch", "dlcheck", "dl", "write", "writing",
                          "ret", "threw"}
       /\ call.phase \in {"dlcheck", "dl"} => call.dl \in 1..5

\* what is left to do while visited does not grow: the words on the queue,
\* each worth a whole call, the relations the delay is about to push, and the
\* steps of the call in progress
Minor ==
    LET whole == StepsLeft("exists", 0) + 1
    IN  CASE crawl.pc = "loop" -> 1 + whole * Len(crawl.queue)
          [] crawl.pc = "call" ->
                1 + whole * Len(crawl.queue) + StepsLeft(call.phase, call.dl)
          [] crawl.pc = "delay" ->
                2 + whole * (Len(crawl.queue)
                             + IF crawl.data = <<>> THEN 0
                               ELSE Len(Relations(crawl.data[1])))
          [] OTHER -> 0

\* a step of the crawler adds a key to visited, which holds at most
\* CrawlLimit keys, or leaves visited alone and has less left to do
Decreases ==
    \/ Cardinality(crawl.visited') > Cardinality(crawl.visited)
    \/ crawl.visited' = crawl.visited /\ Minor' < Minor

\* C32: whatever the relation graph (cycles, a word many times on the queue),
\* the crawler makes at most 50 extraction calls, never extracts a visited key
\* twice, and its loop ends: it is never stuck, and each of its steps
\* decreases a measure that cannot decrease forever
C32_SafetyLimit == [](WithinLimit /\ Runnable) /\ [][Decreases]_vars

\* the crawler has stopped at the safety limit, with words left on the queue,
\* on a site where a word on the queue was extracted before
C32_Witness ==
    /\ crawl.pc = "done"
    /\ Len(crawl.scraped) = CrawlLimit
    /\ crawl.queue # <<>>
    /\ \E n \in 1..Len(crawl.queue) :
          VisitedKey(crawl.queue[n].word, crawl.mode) \in crawl.visited

\* ------------------------------------------------------------------------
\* the JSON to SQLite conversion
\* ------------------------------------------------------------------------

\* the most words dictionary_export.json holds
MaxSqlWords == 2

\* the tables of the child rows, in the order the callback of a word insert
\* fills them
ChildTables == <<"definitions", "synonyms", "antonyms", "similar_words">>

\* the words of the export: how many rows each has for each child table, and
\* whether the insert into words succeeds (it fails for a word that is null)
JsonWords ==
    {[ok |-> TRUE, definitions |-> 0, synonyms |-> 0, antonyms |-> 0, similar_words |-> 0],
     [ok |-> TRUE, definitions |-> 1, synonyms |-> 0, antonyms |-> 0, similar_words |-> 0],
     [ok |-> TRUE, definitions |-> 1, synonyms |-> 1, antonyms |-> 0, similar_words |-> 0],
     [ok |-> TRUE, definitions |-> 0, synonyms |-> 0, antonyms |-> 1, similar_words |-> 1],
     [ok |-> FALSE, definitions |-> 1, synonyms |-> 0, antonyms |-> 0, similar_words |-> 0]}

\* the statements of the first db.serialize block
Schema ==
    <<"CREATE TABLE words", "CREATE INDEX idx_word", "CREATE INDEX idx_type",
      "CREATE INDEX idx_word_type", "CREATE TABLE definitions", "CREATE INDEX idx_word_id",
      "CREATE TABLE synonyms", "CREATE INDEX idx_synonym_word_id", "CREATE TABLE antonyms",
      "CREATE INDEX idx_antonym_word_id", "CREATE TABLE similar_words",
      "CREATE INDEX idx_similar_word_id">>

\* a call the database is asked to make: the statement, the word of jsonData
\* and the row it is for, and whether it runs alone (it does when it was
\* issued inside db.serialize, and so does db.close)
DbCall(stmt, word, n, exclusive) ==
    [stmt |-> stmt, word |-> word, n |-> n, exclusive |-> exclusive]

\* one db.run per row of a child table of word i, issued in the callback
ChildCalls(i, table) ==
    [k \in 1..sql.jsonData[i][table] |-> DbCall(table, i, k, FALSE)]

\* the db.run calls of the callback of the insert of word i
CallbackCalls(i) ==
    ChildCalls(i, ChildTables[1]) \o ChildCalls(i, ChildTables[2])
        \o ChildCalls(i, ChildTables[3]) \o ChildCalls(i, ChildTables[4])

\* the database's scheduling of a call: it is put on the queue while the
\* database is not open, or while a call is pending and the database is locked
\* or the call runs alone; else it starts at once
Schedule(db, c) ==
    IF db.pc # "run" \/ ((db.locked \/ c.exclusive) /\ db.pending # {})
    THEN [db EXCEPT !.queue = Append(@, c)]
    ELSE [db EXCEPT !.locked = c.exclusive, !.pending = @ \cup {c}]

RECURSIVE ScheduleAll(_, _)
\* the calls cs scheduled one after the other
ScheduleAll(db, cs) ==
    IF cs = <<>> THEN db ELSE ScheduleAll(Schedule(db, Head(cs)), Tail(cs))

\* the exports the conversion runs on
SqlInit ==
    /\ Parked
    /\ norm = NoNorm
    /\ parse = NoParse
    /\ crawl = NoCrawl
    /\ sql \in {[NoSql EXCEPT !.pc = "script", !.jsonData = j] :
                  j \in UNION {[1..n -> JsonWords] : n \in 0..MaxSqlWords}}

\* what the conversion leaves alone
sqlRest == <<worker, norm, parse, crawl>>

\* the script, run to its end before the database has opened: the statements
\* of both db.serialize blocks are put on the queue, each to run alone
SqlScript ==
    /\ sql.pc = "script"
    /\ LET words == [i \in 1..Len(sql.jsonData) |-> DbCall("INSERT INTO words", i, 0, TRUE)]
           block1 == [k \in 1..Len(Schema) |-> DbCall(Schema[k], 0, 0, TRUE)]
           block2 == <<DbCall("BEGIN TRANSACTION", 0, 0, TRUE)>> \o words
                        \o <<DbCall("COMMIT", 0, 0, TRUE)>>
       IN  sql' = [ScheduleAll(sql, block1 \o block2) EXCEPT
                      !.pc = "run", !.totalWords = Len(sql.jsonData)]
    /\ UNCHANGED sqlRest

\* the database takes the call at the head of its queue: a call that runs
\* alone waits until no call is pending, and holds back the calls behind it
SqlProcess ==
    /\ sql.pc = "run"
    /\ sql.queue # <<>>
    /\ ~sql.locked \/ sql.pending = {}
    /\ Head(sql.queue).exclusive => sql.pending = {}
    /\ sql' = [sql EXCEPT !.queue = Tail(@),
                          !.locked = Head(sql.queue).exclusive,
                          !.pending = @ \cup {Head(sql.queue)}]
    /\ UNCHANGED sqlRest

\* the summary COMMIT's callback prints, with the count of child rows
Summary == DbCall("summary", 0, sql.totalChildren, FALSE)

\* a pending call is done: the statement has been executed, and its callback
\* runs while the call still counts as pending: the callback of a word insert
\* issues the inserts of the child rows (none after an error), the callback of
\* COMMIT prints the summary and calls db.close
SqlSettle ==
    /\ sql.pc = "run"
    /\ \E c \in sql.pending :
          LET done == [sql EXCEPT !.ran = Append(@, c)]
              after ==
                  IF c.stmt = "INSERT INTO words" /\ sql.jsonData[c.word].ok
                  THEN [ScheduleAll(done, CallbackCalls(c.word)) EXCEPT
                           !.totalChildren = @ + Len(CallbackCalls(c.word))]
                  ELSE IF c.stmt = "COMMIT"
                  THEN Schedule([done EXCEPT !.ran = Append(@, Summary)],
                                DbCall("close", 0, 0, TRUE))
                  ELSE IF c.stmt = "close"
                  THEN [done EXCEPT !.pc = "closed"]
                  ELSE done
          IN  sql' = [after EXCEPT !.pending = @ \ {c}]
    /\ UNCHANGED sqlRest

SqlNext == SqlScript \/ SqlProcess \/ SqlSettle

SqlSpec == SqlInit /\ [][SqlNext]_vars

\* C34: every insert of a child row is executed after BEGIN TRANSACTION and
\* before COMMIT, and before the summary is printed and the database is closed
C34_ChildInsideTransaction ==
    \A p \in 1..Len(sql.ran) :
        (\E t \in 1..Len(ChildTables) : sql.ran[p].stmt = ChildTables[t])
            => /\ \E b \in 1..(p - 1) : sql.ran[b].stmt = "BEGIN TRANSACTION"
               /\ \A q \in 1..(p - 1) : sql.ran[q].stmt \notin {"COMMIT", "summary", "close"}

\* the mode whose records partition p holds
ModeOfPartition(p) == CASE p = "en_kh" -> 1 [] p = "kh_kh" -> 2 [] p = "kh_en" -> 3

\* C33: the record a call writes is in the partition of the mode the call
\* fetched the page with: en_kh for mode 1, kh_kh for mode 2, kh_en for mode 3,
\* and for no other mode value a record is written into one of the three
C33_PartitionOfFetchMode ==
    (call.phase = "writing" \/ call.outcome = "stored")
        => /\ CallPath \in DOMAIN files
           /\ ModeOfPartition(CallPath[1]) = call.mode

====
